---- MODULE Spec2Model ----
(***************************************************************************)
(* The document OCR orchestration pipeline of services/ocr:                *)
(* OCROrchestrator._process_payload with its collaborators (object store,  *)
(* document converter, the DeepSeek and PaddleOCR clients) and the HTTP    *)
(* exception handlers.  One request is a coroutine; an action is the code  *)
(* the coroutine runs between two awaits.                                  *)
(***************************************************************************)
EXTENDS Integers, Sequences, FiniteSets, TLC

(***************************************************************************)
(* Bounds of the model.                                                    *)
(***************************************************************************)
\* number of requests that run concurrently under SpecConc
NReqs == 2
\* settings.max_workers (config.py:42 defaults to 4), kept small so that
\* documents have more pages than permits
max_workers == 2
\* settings.max_pages (config.py:43 defaults to 200), kept small so that a
\* PDF can exceed it
max_pages == 2

Reqs == 1..NReqs

\* page counts a PDF byte stream can have: up to one more than the limit
PageCounts == 0..(max_pages + 1)

(***************************************************************************)
(* Values.                                                                 *)
(***************************************************************************)
None == "None"

\* a text is a sequence of characters; a character outside ASCII is written
\* by its code point
NL == "\n"
EmptyText == << >>
Texts == { <<"a">>, <<"U+00E9", NL>> }

\* processors.py: ProcessorFactory class attributes
IMAGE_MIME_PREFIX == "image/"
IMAGE_SUFFIXES == {"png", "jpg", "jpeg", "webp", "bmp"}
DOC_SUFFIXES == {"doc", "docx"}

\* the bucket layout of Settings
minio_default_bucket == "ocr-results"
minio_raw_bucket == "raw-docs"
minio_converted_pdf_bucket == "converted-pdf"
minio_page_images_bucket == "page-images"
default_prompt_markdown == "default_prompt_markdown"
default_prompt_plain == "default_prompt_plain"

\* exceptions.py: the classes below OCRException
OCRExceptionClasses ==
    {"FileNotProvidedError", "UnsupportedFileTypeError", "OCRProcessException",
     "StorageUnavailableError"}

Err(cls, msg) == [cls |-> cls, msg |-> msg]
NoErr == Err("none", "none")

\* a reference to an object of the store; NoRef stands for (None, None)
Ref(bucket, key) == [bucket |-> bucket, key |-> key]
NoRef == Ref(None, << >>)

\* what the byte stream of a payload is: a PDF of n pages, a still image, an
\* office document, or bytes no decoder accepts
\* (every object of the store has the same three fields: a page image is
\* the PNG of the page with that index, a result object carries its text)
Bytes(fmt, pages, text) == [fmt |-> fmt, pages |-> pages, text |-> text]
PdfData(n) == Bytes("pdf", n, << >>)
ImgData == Bytes("img", 1, << >>)
OfficeData == Bytes("office", 0, << >>)
BadData == Bytes("bad", 0, << >>)
PngOfPage(idx) == Bytes("png", idx, << >>)

FilePayload(stem, suffix, content_type, data) ==
    [stem |-> stem, suffix |-> suffix, content_type |-> content_type, data |-> data]

(***************************************************************************)
(* State.                                                                  *)
(***************************************************************************)
VARIABLES
    cfg,      \* the orchestrator's collaborators and settings
    pc,       \* pc[r]: where request r's coroutine is
    req,      \* req[r]: the payload and options request r was called with
    loc,      \* loc[r]: the local variables of _process_payload
    tasks,    \* tasks[r]: the page tasks gathered by process_images
    sem,      \* DeepSeekOCRClient._semaphore: permits left
    store,    \* the object store: set of [bucket, key, content]
    calls,    \* calls[r]: outbound calls made on behalf of request r
    outcome,  \* outcome[r]: what the caller of request r got back
    text,     \* a text handed to strip_layout_tags
    cleaned,  \* what the successive calls of strip_layout_tags returned
    arg,      \* a function of the service called on its own, and its argument
    ret,      \* what that call returned or raised (empty before it ends)
    OCR_LOCK, \* the recognition service's _OCR_LOCK: TRUE while it is held
    thread    \* thread[t]: worker thread t of the recognition service in predict

vars == <<cfg, pc, req, loc, tasks, sem, store, calls, outcome, text, cleaned, arg, ret, OCR_LOCK, thread>>

(***************************************************************************)
(* Pure helpers, as the code computes them.                                *)
(***************************************************************************)
\* a join that separates the texts by one newline only
RECURSIVE JoinSingleNewline(_, _)
JoinSingleNewline(sep, ts) ==
    IF ts = << >> THEN EmptyText
    ELSE IF Len(ts) = 1 THEN ts[1]
    ELSE ts[1] \o <<NL>> \o JoinSingleNewline(sep, Tail(ts))

\* str.join: "\n\n".join(texts) (service.py:144)
RECURSIVE Join(_, _)
Join(sep, ts) ==
    IF ts = << >> THEN EmptyText
    ELSE IF Len(ts) = 1 THEN ts[1]
    ELSE ts[1] \o sep \o Join(sep, Tail(ts))

\* enumerate(texts, 1): indices that start at one
EnumerateFromOne(texts) ==
    [i \in 1..Len(texts) |-> [index |-> i, text |-> texts[i]]]

\* [PageResult(index=i, text=text) for i, text in enumerate(texts)]
Enumerate(texts) ==
    [i \in 1..Len(texts) |-> [index |-> i - 1, text |-> texts[i]]]

\* a content type is NoContentType (None or "") or <<type, subtype>>, standing
\* for the string "type/subtype"
NoContentType == << >>
StartsWithImagePrefix(content_type) ==
    content_type # NoContentType /\ content_type[1] \o "/" = IMAGE_MIME_PREFIX

\* a factory whose last line returns the still-image processor instead of
\* raising
get_processor_fallback(payload) ==
    IF StartsWithImagePrefix(payload.content_type)
        THEN [processor |-> "image", err |-> NoErr]
    ELSE IF payload.suffix = "pdf"
        THEN [processor |-> "pdf", err |-> NoErr]
    ELSE IF payload.suffix \in IMAGE_SUFFIXES
        THEN [processor |-> "image", err |-> NoErr]
    ELSE IF payload.suffix \in DOC_SUFFIXES
        THEN [processor |-> None,
              err |-> Err("UnsupportedFileTypeError",
                          "doc/docx should be converted to pdf before processing")]
    ELSE [processor |-> "image", err |-> NoErr]

\* a factory that looks at the suffix before the declared content type
get_processor_suffix_first(payload) ==
    IF payload.suffix = "pdf"
        THEN [processor |-> "pdf", err |-> NoErr]
    ELSE IF payload.suffix \in IMAGE_SUFFIXES
        THEN [processor |-> "image", err |-> NoErr]
    ELSE IF payload.suffix \in DOC_SUFFIXES
        THEN [processor |-> None,
              err |-> Err("UnsupportedFileTypeError",
                          "doc/docx should be converted to pdf before processing")]
    ELSE IF StartsWithImagePrefix(payload.content_type)
        THEN [processor |-> "image", err |-> NoErr]
    ELSE [processor |-> None,
          err |-> Err("UnsupportedFileTypeError", "Unsupported file type")]

\* ProcessorFactory.get_processor: the processor, or the error it raises
get_processor(payload) ==
    IF StartsWithImagePrefix(payload.content_type)
        THEN [processor |-> "image", err |-> NoErr]
    ELSE IF payload.suffix = "pdf"
        THEN [processor |-> "pdf", err |-> NoErr]
    ELSE IF payload.suffix \in IMAGE_SUFFIXES
        THEN [processor |-> "image", err |-> NoErr]
    ELSE IF payload.suffix \in DOC_SUFFIXES
        THEN [processor |-> None,
              err |-> Err("UnsupportedFileTypeError",
                          "doc/docx should be converted to pdf before processing")]
    ELSE [processor |-> None,
          err |-> Err("UnsupportedFileTypeError", "Unsupported file type")]

\* a rasterizer that rejects a PDF without pages
PDFProcessor_convert_sync_nonempty(data) ==
    IF data.fmt # "pdf"
        THEN [images |-> -1, rendered |-> 0, err |-> Err("FileDataError", "cannot open document")]
    ELSE IF data.pages > max_pages
        THEN [images |-> -1, rendered |-> 0,
              err |-> Err("ValueError", "PDF has more pages than allowed")]
    ELSE IF data.pages = 0
        THEN [images |-> -1, rendered |-> 0, err |-> Err("ValueError", "PDF has no pages")]
    ELSE [images |-> data.pages, rendered |-> data.pages, err |-> NoErr]

\* PDFProcessor._convert_sync: the number of images rendered, or the error
PDFProcessor_convert_sync(data) ==
    IF data.fmt # "pdf"
        THEN [images |-> -1, rendered |-> 0, err |-> Err("FileDataError", "cannot open document")]
    ELSE IF data.pages > max_pages
        THEN [images |-> -1, rendered |-> 0,
              err |-> Err("ValueError", "PDF has more pages than allowed")]
    ELSE [images |-> data.pages, rendered |-> data.pages, err |-> NoErr]

\* ImageProcessor.to_images: exactly one image, or the decoder's error
ImageProcessor_to_images(data) ==
    IF data.fmt # "img"
        THEN [images |-> -1, rendered |-> 0,
              err |-> Err("UnidentifiedImageError", "cannot identify image file")]
    ELSE [images |-> 1, rendered |-> 1, err |-> NoErr]

to_images(processor, data) ==
    IF processor = "pdf" THEN PDFProcessor_convert_sync(data)
    ELSE ImageProcessor_to_images(data)

\* a resolution that knows one default only
resolve_prompt_markdown_default(options) ==
    IF options.prompt # None /\ options.prompt # ""
        THEN options.prompt
    ELSE default_prompt_markdown

\* OCROrchestrator._resolve_prompt; a prompt is None, "" or a text
resolve_prompt(options) ==
    IF options.prompt # None /\ options.prompt # ""
        THEN options.prompt
    ELSE IF options.output_format = "plain_text"
        THEN default_prompt_plain
    ELSE default_prompt_markdown

\* a flag forced for plain text only, the other mode falling through to the
\* setting
should_skip_special_tokens_plain_only(options) ==
    IF options.output_format = "plain_text" THEN "True" ELSE "AttributeError"

\* OCROrchestrator._should_skip_special_tokens; the fallback reads a setting
\* that Settings does not define
should_skip_special_tokens(options) ==
    IF options.output_format = "plain_text" \/ options.output_format = "markdown"
        THEN "True"
    ELSE "AttributeError"

\* OCROrchestrator._build_object_name
build_object_name(stem, output_format, task_id) ==
    <<"ocr-results/", task_id, "/", stem, ".",
      IF output_format = "markdown" THEN "md" ELSE "txt">>

\* one identifier for every request
task_id_constant(r) == "1"

\* uuid.uuid4().hex: one identifier per request
task_id_of(r) == ToString(r)

\* a key for the original that leaves the task id out
original_object_name_plain(task_id, payload) == <<payload.stem, ".", payload.suffix>>

\* the object names the orchestrator builds (service.py:94, 218, 239)
original_object_name(task_id, payload) ==
    <<task_id, "-", payload.stem, ".", payload.suffix>>
converted_object_name(task_id, stem) == <<task_id, "-", stem, ".pdf">>
\* a key that numbers the pages from zero
page_object_name_zero_based(task_id, idx) == <<task_id, "/page-", ToString(idx), ".png">>

page_object_name_no_index(task_id, idx) == <<task_id, "/page-", "1", ".png">>
page_object_name(task_id, idx) == <<task_id, "/page-", ToString(idx + 1), ".png">>

\* StorageClient.presign_get: the URL names the object it gives access to
presign_get(bucket, key) == [url |-> "presigned", bucket |-> bucket, key |-> key]

\* put_object: the object replaces whatever the bucket held under the key
put_object(st, bucket, key, content) ==
    { o \in st : ~(o.bucket = bucket /\ o.key = key) }
        \cup { [bucket |-> bucket, key |-> key, content |-> content] }

\* the code point of a character (ord)
CodePoint(ch) ==
    CASE ch = NL -> 10
      [] ch = " " -> 32
      [] ch = "a" -> 97
      [] ch = "U+00E9" -> 233
      [] OTHER -> 63

\* an encoding of one byte per character
latin1_encode(t) == [i \in 1..Len(t) |-> CodePoint(t[i])]

\* str.encode("utf-8"): one byte below U+0080, two bytes below U+0800
RECURSIVE utf8_encode(_)
utf8_encode(t) ==
    IF t = << >> THEN << >>
    ELSE LET cp == CodePoint(Head(t)) IN
         (IF cp < 128 THEN <<cp>>
          ELSE <<192 + (cp \div 64), 128 + (cp % 64)>>) \o utf8_encode(Tail(t))

\* StorageClient.upload_text: the text is encoded and put
upload_text(st, bucket, key, t) ==
    put_object(st, bucket, key, Bytes("text", 0, utf8_encode(t)))

\* main.py: ocr_exception_handler and unknown_exception_handler
http_response(err) ==
    IF err.cls \in OCRExceptionClasses
        THEN [status_code |-> 400, error |-> err.msg]
    ELSE [status_code |-> 500, error |-> "Internal Server Error"]

(***************************************************************************)
(* Records of the state.                                                   *)
(***************************************************************************)
NoUrl == [url |-> None, bucket |-> None, key |-> << >>]

NoResult ==
    [output_format |-> None, prompt_used |-> None, total_pages |-> 0,
     pages |-> << >>, combined_text |-> EmptyText,
     stored_bucket |-> None, stored_object_name |-> << >>,
     source_bucket |-> None, source_object_name |-> << >>,
     converted_pdf_bucket |-> None, converted_pdf_object |-> << >>,
     image_bucket |-> None, image_objects |-> << >>]

NoOutcome == [status |-> "pending", err |-> NoErr, result |-> NoResult]

NoPayload == FilePayload("", "", NoContentType, BadData)
NoOptions ==
    [output_format |-> None, prompt |-> None, store_result |-> FALSE,
     store_bucket |-> None, store_object_name |-> << >>, provider |-> None]

\* the locals of _process_payload before its first statement
InitLoc ==
    [payload |-> NoPayload, orig |-> NoRef, convert_src |-> NoRef, pdf |-> NoRef,
     processor |-> None,
     images |-> -1, staged |-> FALSE, image_urls |-> << >>, image_keys |-> << >>,
     prompt |-> None, pdf_url |-> NoUrl, gather_err |-> NoErr,
     overtaken |-> FALSE,
     texts |-> << >>, combined |-> EmptyText, stored |-> NoRef]

NoCalls ==
    [put_original |-> 0, convert |-> 0, fetch |-> 0, select |-> 0,
     rasterize |-> 0, rendered |-> 0, put_image |-> 0, presign |-> 0,
     ocr |-> 0, put_result |-> 0]

\* one page task of process_images: its input, its state, what it returned or raised
NewTask(client, input, prompt, skip) ==
    [client |-> client, input |-> input, prompt |-> prompt, skip |-> skip,
     st |-> "pending", out |-> EmptyText, err |-> NoErr]

Bitmap(i) == [url |-> "bitmap", bucket |-> None, key |-> <<ToString(i)>>]

(***************************************************************************)
(* Inputs.                                                                 *)
(***************************************************************************)
Suffixes == {"pdf", "png", "doc", "docx", "exe", ""}
ContentTypes == {NoContentType, <<"image", "png">>}
Providers == {"deepseek", "paddle", "tesseract"}
OutputFormats == {"markdown", "plain_text"}

DataOf(suffix) ==
    IF suffix \in DOC_SUFFIXES THEN {OfficeData}
    ELSE {PdfData(n) : n \in PageCounts} \cup {ImgData, BadData}

Payloads ==
    UNION { { FilePayload("f", sfx, ct, d) : d \in DataOf(sfx), ct \in ContentTypes }
            : sfx \in Suffixes }

\* a request whose prompt is the empty string
EmptyPromptOptions ==
    [output_format : OutputFormats, prompt : {""},
     store_result : {FALSE}, store_bucket : {None},
     store_object_name : {<< >>}, provider : {"deepseek"}]

Options ==
    [output_format : OutputFormats, prompt : {None, "custom prompt"},
     store_result : BOOLEAN, store_bucket : {None},
     store_object_name : {<< >>}, provider : Providers]
    \cup EmptyPromptOptions

Configs ==
    [storage : BOOLEAN, minio_enabled : BOOLEAN, converter : BOOLEAN,
     paddle : BOOLEAN, persist_results_by_default : BOOLEAN]

\* dependencies.get_orchestrator: every collaborator is built, storage when
\* MinIO is enabled (the default)
ProductionConfig ==
    [storage |-> TRUE, minio_enabled |-> TRUE, converter |-> TRUE,
     paddle |-> TRUE, persist_results_by_default |-> FALSE]

\* what the multimodal backend answers: an exception, or a completion whose
\* content may be None (null) or empty
DeepSeekResponses ==
    {[exc |-> TRUE, null |-> FALSE, content |-> EmptyText],
     [exc |-> FALSE, null |-> TRUE, content |-> EmptyText]}
    \cup {[exc |-> FALSE, null |-> FALSE, content |-> t] : t \in Texts \cup {EmptyText}}

\* what the PaddleOCR service answers: an HTTP error, or a JSON document: an
\* object with some of the keys text and result (other keys are not read), a
\* list, or a scalar
PaddleJson(json, keys, t, result, items) ==
    [status |-> "ok", json |-> json, keys |-> keys, text |-> t, result |-> result,
     items |-> items]
PaddleResponses ==
    {[status |-> "http_error", json |-> "scalar", keys |-> {}, text |-> EmptyText,
      result |-> EmptyText, items |-> << >>]}
    \cup {PaddleJson("dict", ks, t, <<"a">>, << >>) :
             ks \in {{"text"}, {"text", "result"}}, t \in Texts \cup {EmptyText}}
    \cup {PaddleJson("dict", {"result"}, EmptyText, <<"a">>, << >>),
          PaddleJson("dict", {}, EmptyText, EmptyText, << >>),
          PaddleJson("scalar", {}, EmptyText, EmptyText, << >>)}
    \cup {PaddleJson("list", {}, EmptyText, EmptyText, items) :
             items \in {<< >>, << <<"a">> >>, << <<"U+00E9", NL>>, <<"a">> >>}}

(***************************************************************************)
(* Initial states.                                                         *)
(***************************************************************************)
InitRest ==
    /\ pc = [r \in Reqs |-> "idle"]
    /\ req = [r \in Reqs |-> [payload |-> NoPayload, options |-> NoOptions]]
    /\ loc = [r \in Reqs |-> InitLoc]
    /\ tasks = [r \in Reqs |-> << >>]
    /\ sem = max_workers
    /\ store = {}
    /\ calls = [r \in Reqs |-> NoCalls]
    /\ outcome = [r \in Reqs |-> NoOutcome]

\* no text is being cleaned
NoCleaning == text = EmptyText /\ cleaned = << >>

\* no function is called on its own
NoArg == [fn |-> None, x |-> None]
NoCall == arg = NoArg /\ ret = << >>

\* the recognition service as it is loaded: the lock free, no request in a thread
NThreads == 2
Threads == 1..NThreads
NoPredictRequest == [image |-> None, image_url |-> << >>, output_format |-> None]
IdleThread ==
    [pc |-> "idle", req |-> NoPredictRequest, pdf_path |-> None,
     status |-> 0, detail |-> None]
NoPredict == OCR_LOCK = FALSE /\ thread = [t \in Threads |-> IdleThread]

\* any orchestrator the constructor accepts
Init == cfg \in Configs /\ InitRest /\ NoCleaning /\ NoCall /\ NoPredict

\* the process-wide cached orchestrator
InitConc == cfg = ProductionConfig /\ InitRest /\ NoCleaning /\ NoCall /\ NoPredict

(***************************************************************************)
(* _process_payload, one action per stretch of code between two awaits.    *)
(***************************************************************************)
\* `if self._storage and self._settings.minio_enabled` (service.py:79, 110)
StorageUsable(c) == c.storage /\ c.minio_enabled

\* a raise that replaces the error by a generic one
Fail_generic(r, e) ==
    /\ pc' = [pc EXCEPT ![r] = "failed"]
    /\ outcome' = [outcome EXCEPT ![r] =
          [status |-> "raised", err |-> Err("OCRProcessException", "processing failed"),
           result |-> NoResult]]

\* raising e out of _process_payload
Fail(r, e) ==
    /\ pc' = [pc EXCEPT ![r] = "failed"]
    /\ outcome' = [outcome EXCEPT ![r] = [status |-> "raised", err |-> e, result |-> NoResult]]

\* service.py:72-82: the call, the task id and the storage check; the upload
\* of the original is handed to the executor
Receive(r, p, o) ==
    /\ pc[r] = "idle"
    /\ req' = [req EXCEPT ![r] = [payload |-> p, options |-> o]]
    /\ loc' = [loc EXCEPT ![r].payload = p]
    /\ IF StorageUsable(cfg)
         THEN /\ pc' = [pc EXCEPT ![r] = "store_original"]
              /\ calls' = [calls EXCEPT ![r].put_original = @ + 1]
              /\ outcome' = outcome
         ELSE /\ Fail(r, Err("OCRProcessException", "MinIO/storage is required for processing"))
              /\ calls' = calls
    /\ UNCHANGED <<cfg, tasks, sem, store, text, cleaned, arg, ret, OCR_LOCK, thread>>

\* service.py:104-107: processor selection, then to_images goes to the executor
SelectAndRasterize(r, l, c) ==
    LET gp == get_processor(l.payload) IN
    IF gp.err # NoErr
      THEN /\ Fail(r, gp.err)
           /\ loc' = [loc EXCEPT ![r] = l]
           /\ calls' = [calls EXCEPT ![r] = [c EXCEPT !.select = @ + 1]]
      ELSE /\ pc' = [pc EXCEPT ![r] = "rasterize"]
           /\ loc' = [loc EXCEPT ![r] = [l EXCEPT !.processor = gp.processor]]
           /\ calls' = [calls EXCEPT ![r] = [c EXCEPT !.select = @ + 1, !.rasterize = @ + 1]]
           /\ outcome' = outcome

\* the doc/docx guard without its converter test
ConverterUnavailable_storage_only(c) == ~c.storage \/ ~c.minio_enabled

\* `if not self._converter or not self._storage or not self._settings.minio_enabled`
ConverterUnavailable(c) == ~c.converter \/ ~c.storage \/ ~c.minio_enabled

\* a converter call that names the source by the default bucket and key
convert_source_default(l, task_id) ==
    Ref(minio_raw_bucket,
        <<"raw-docs/", task_id, "-", l.payload.stem, ".", l.payload.suffix>>)

\* the source handed to the converter (service.py:90-91): the reference
\* _store_original returned, or the default bucket and key when it is empty
\* (convert_src: the source_bucket and source_object of the call)
convert_source(l, task_id) ==
    Ref(IF l.orig.bucket # None THEN l.orig.bucket ELSE minio_raw_bucket,
        IF l.orig.key # << >> THEN l.orig.key
        ELSE <<"raw-docs/", task_id, "-", l.payload.stem, ".", l.payload.suffix>>)

\* service.py:80-95 after the upload of the original: _store_original returns,
\* then the doc/docx branch or processor selection
OriginalStored(r, ok) ==
    /\ pc[r] = "store_original"
    /\ IF ~ok
         THEN /\ Fail(r, Err("S3Error", "put_object failed"))
              /\ UNCHANGED <<loc, calls, store>>
         ELSE LET l0 == loc[r]
                  key == original_object_name(task_id_of(r), l0.payload)
                  l1 == [l0 EXCEPT !.orig = Ref(minio_raw_bucket, key)]
              IN  /\ store' = put_object(store, minio_raw_bucket, key, l0.payload.data)
                  /\ IF l0.payload.suffix \in {"doc", "docx"}
                       THEN IF ConverterUnavailable(cfg)
                              THEN /\ Fail(r, Err("OCRProcessException",
                                                  "MinIO/converter is required for doc/docx"))
                                   /\ loc' = [loc EXCEPT ![r] = l1]
                                   /\ calls' = calls
                              ELSE /\ pc' = [pc EXCEPT ![r] = "convert"]
                                   /\ loc' = [loc EXCEPT ![r] =
                                         [l1 EXCEPT !.convert_src =
                                            convert_source(l1, task_id_of(r))]]
                                   /\ calls' = [calls EXCEPT ![r].convert = @ + 1]
                                   /\ outcome' = outcome
                       ELSE SelectAndRasterize(r, l1, calls[r])
    /\ UNCHANGED <<cfg, req, tasks, sem, text, cleaned, arg, ret, OCR_LOCK, thread>>

\* StorageClient.fetch of an object that exists
fetch(st, bucket, key) ==
    (CHOOSE o \in st : o.bucket = bucket /\ o.key = key).content

\* service.py:89-101: the converter answers; on success it has written the PDF
\* (n pages) under the requested target and names it, the orchestrator fetches
\* it (synchronously) and replaces the payload
ConvertDone(r, ok, n, fetch_ok) ==
    /\ pc[r] = "convert"
    /\ IF ~ok
         THEN /\ Fail(r, Err("OCRProcessException", "Convert failed"))
              /\ UNCHANGED <<loc, calls, store>>
         ELSE LET l0 == loc[r]
                  key == converted_object_name(task_id_of(r), l0.payload.stem)
                  st1 == put_object(store, minio_converted_pdf_bucket, key, PdfData(n))
                  l1 == [l0 EXCEPT !.pdf = Ref(minio_converted_pdf_bucket, key)]
                  c1 == [calls[r] EXCEPT !.fetch = @ + 1]
                  p1 == FilePayload(task_id_of(r) \o "-" \o l0.payload.stem, "pdf",
                                    <<"application", "pdf">>,
                                    fetch(st1, l1.pdf.bucket, l1.pdf.key))
              IN  /\ store' = st1
                  /\ IF ~fetch_ok
                       THEN /\ Fail(r, Err("StorageUnavailableError", "get_object failed"))
                            /\ loc' = [loc EXCEPT ![r] = l1]
                            /\ calls' = [calls EXCEPT ![r] = c1]
                       ELSE SelectAndRasterize(r, [l1 EXCEPT !.payload = p1], c1)
    /\ UNCHANGED <<cfg, req, tasks, sem, text, cleaned, arg, ret, OCR_LOCK, thread>>

\* an orchestrator that never stages page images
StagesImages_never(c, n) == FALSE

\* service.py:110-115: with usable storage every rasterized image is staged
\* (the loop of _store_and_presign_images runs once per image)
StagesImages(c, n) == StorageUsable(c) /\ n > 0

\* service.py:107-115: to_images returns or raises; with usable storage the
\* page images are staged next
Rasterized(r) ==
    /\ pc[r] = "rasterize"
    /\ LET res == to_images(loc[r].processor, loc[r].payload.data) IN
       IF res.err # NoErr
         THEN /\ Fail(r, res.err)
              /\ UNCHANGED <<loc, calls>>
         ELSE /\ pc' = [pc EXCEPT ![r] =
                          IF StagesImages(cfg, res.images)
                            THEN "stage_images" ELSE "dispatch"]
              /\ loc' = [loc EXCEPT ![r].images = res.images,
                                    ![r].staged = StorageUsable(cfg)]
              /\ calls' = [calls EXCEPT ![r].rendered = @ + res.rendered]
              /\ outcome' = outcome
    /\ UNCHANGED <<cfg, req, tasks, sem, store, text, cleaned, arg, ret, OCR_LOCK, thread>>

\* a loop that ends after its first image
LoopEnds_after_first(staged, images) == staged >= 1

\* `for idx, img in enumerate(images)` (service.py:237) ends when every image
\* has been staged
LoopEnds(staged, images) == staged = images

\* one iteration of the loop of _store_and_presign_images (service.py:237-250):
\* encode, upload, presign, append
StageImage(r, put_ok, presign_ok) ==
    /\ pc[r] = "stage_images"
    /\ LET l0 == loc[r]
           idx == Len(l0.image_urls)
           key == page_object_name(task_id_of(r), idx)
       IN
       IF ~put_ok
         THEN /\ Fail(r, Err("S3Error", "put_object failed"))
              /\ calls' = [calls EXCEPT ![r].put_image = @ + 1]
              /\ UNCHANGED <<loc, store>>
       ELSE IF ~presign_ok
         THEN /\ Fail(r, Err("StorageUnavailableError", "presign failed"))
              /\ calls' = [calls EXCEPT ![r].put_image = @ + 1, ![r].presign = @ + 1]
              /\ store' = put_object(store, minio_page_images_bucket, key, PngOfPage(idx))
              /\ loc' = loc
       ELSE /\ store' = put_object(store, minio_page_images_bucket, key, PngOfPage(idx))
            /\ calls' = [calls EXCEPT ![r].put_image = @ + 1, ![r].presign = @ + 1]
            /\ loc' = [loc EXCEPT
                         ![r].image_urls = Append(@, presign_get(minio_page_images_bucket, key)),
                         ![r].image_keys = Append(@, key)]
            /\ pc' = [pc EXCEPT ![r] =
                        IF LoopEnds(idx + 1, l0.images) THEN "dispatch" ELSE "stage_images"]
            /\ outcome' = outcome
    /\ UNCHANGED <<cfg, req, tasks, sem, text, cleaned, arg, ret, OCR_LOCK, thread>>

\* a client that returns whatever content the completion carries
DeepSeekDecode_accept_empty(resp) ==
    IF resp.exc
        THEN [text |-> EmptyText, err |-> Err("OCRProcessException", "vLLM OCR request failed")]
    ELSE [text |-> resp.content, err |-> NoErr]

\* DeepSeekOCRClient._process_single after the completion call
\* (ocr_client.py:65-97); `not content` holds for None and for ""
DeepSeekDecode(resp) ==
    IF resp.exc
        THEN [text |-> EmptyText, err |-> Err("OCRProcessException", "vLLM OCR request failed")]
    ELSE IF resp.null \/ resp.content = EmptyText
        THEN [text |-> EmptyText, err |-> Err("OCRProcessException", "Empty OCR response")]
    ELSE [text |-> resp.content, err |-> NoErr]

\* str(x) of a JSON string is the string itself
str(x) == x

\* a decoder that probes the key result before the key text
PaddleDecode_result_first(resp) ==
    IF resp.status = "http_error"
        THEN [text |-> EmptyText, err |-> Err("OCRProcessException", "PaddleOCR request failed")]
    ELSE IF resp.json = "dict" /\ "result" \in resp.keys
        THEN [text |-> str(resp.result), err |-> NoErr]
    ELSE IF resp.json = "dict" /\ "text" \in resp.keys
        THEN [text |-> resp.text, err |-> NoErr]
    ELSE IF resp.json = "list" /\ resp.items # << >>
        THEN [text |-> str(resp.items[1]), err |-> NoErr]
    ELSE [text |-> EmptyText,
          err |-> Err("OCRProcessException", "Unexpected PaddleOCR response format")]

\* PaddleOCRClient._process_single after the POST (paddle_client.py:37-61)
PaddleDecode(resp) ==
    IF resp.status = "http_error"
        THEN [text |-> EmptyText, err |-> Err("OCRProcessException", "PaddleOCR request failed")]
    ELSE IF resp.json = "dict" /\ "text" \in resp.keys
        THEN [text |-> resp.text, err |-> NoErr]
    ELSE IF resp.json = "dict" /\ "result" \in resp.keys
        THEN [text |-> str(resp.result), err |-> NoErr]
    ELSE IF resp.json = "list" /\ resp.items # << >>
        THEN [text |-> str(resp.items[1]), err |-> NoErr]
    ELSE [text |-> EmptyText,
          err |-> Err("OCRProcessException", "Unexpected PaddleOCR response format")]

\* the bitmaps, whatever was staged
DispatchInputs_bitmaps(l) == [i \in 1..l.images |-> Bitmap(i - 1)]

\* `image_urls if image_urls else images` (service.py:128, 139)
DispatchInputs(l) ==
    IF l.image_urls # << >> THEN l.image_urls
    ELSE [i \in 1..l.images |-> Bitmap(i - 1)]

\* the condition without its test of the output format
WantsPdfUrl_any_format(c, o, l) ==
    /\ o.provider = "paddle"
    /\ l.pdf # NoRef
    /\ c.storage

\* the condition of service.py:120
WantsPdfUrl(c, o, l) ==
    /\ o.provider = "paddle"
    /\ o.output_format = "markdown"
    /\ l.pdf # NoRef
    /\ c.storage

\* tasks created from the last input to the first
process_images_reversed(client, inputs, prompt, skip) ==
    [i \in 1..Len(inputs) |-> NewTask(client, inputs[Len(inputs) + 1 - i], prompt, skip)]

\* process_images up to its await: one task per input, handed to gather
process_images(client, inputs, prompt, skip) ==
    [i \in 1..Len(inputs) |-> NewTask(client, inputs[i], prompt, skip)]

\* service.py:117-142: prompt, the whole-document PDF URL, provider selection,
\* and the call of process_images
Dispatch(r, presign_ok) ==
    /\ pc[r] = "dispatch"
    /\ LET o == req[r].options
           l0 == loc[r]
           wants == WantsPdfUrl(cfg, o, l0)
           l1 == [l0 EXCEPT !.prompt = resolve_prompt(o),
                            !.pdf_url = IF wants THEN presign_get(l0.pdf.bucket, l0.pdf.key)
                                        ELSE NoUrl]
           c1 == IF wants THEN [calls[r] EXCEPT !.presign = @ + 1] ELSE calls[r]
       IN
       IF wants /\ ~presign_ok
         THEN /\ Fail(r, Err("StorageUnavailableError", "presign failed"))
              /\ loc' = [loc EXCEPT ![r].prompt = l1.prompt]
              /\ calls' = [calls EXCEPT ![r] = c1]
              /\ tasks' = tasks
       ELSE IF o.provider = "deepseek"
         THEN /\ tasks' = [tasks EXCEPT ![r] =
                    process_images("deepseek", DispatchInputs(l1), l1.prompt,
                                   should_skip_special_tokens(o))]
              /\ pc' = [pc EXCEPT ![r] = "gather"]
              /\ loc' = [loc EXCEPT ![r] = l1]
              /\ calls' = [calls EXCEPT ![r] = c1]
              /\ outcome' = outcome
       ELSE IF o.provider = "paddle"
         THEN IF ~cfg.paddle
                THEN /\ Fail(r, Err("OCRProcessException", "PaddleOCR client is not configured"))
                     /\ loc' = [loc EXCEPT ![r] = l1]
                     /\ calls' = [calls EXCEPT ![r] = c1]
                     /\ tasks' = tasks
                ELSE /\ tasks' = [tasks EXCEPT ![r] =
                           process_images("paddle",
                                          IF l1.pdf_url # NoUrl THEN <<l1.pdf_url>>
                                          ELSE DispatchInputs(l1),
                                          o.output_format, None)]
                     /\ pc' = [pc EXCEPT ![r] = "gather"]
                     /\ loc' = [loc EXCEPT ![r] = l1]
                     /\ calls' = [calls EXCEPT ![r] = c1]
                     /\ outcome' = outcome
       ELSE /\ Fail(r, Err("OCRProcessException", "Unknown provider"))
            /\ loc' = [loc EXCEPT ![r] = l1]
            /\ calls' = [calls EXCEPT ![r] = c1]
            /\ tasks' = tasks
    /\ UNCHANGED <<cfg, req, sem, store, text, cleaned, arg, ret, OCR_LOCK, thread>>

\* a page task that has not ended
Running(t) == t.st \in {"pending", "inflight"}

\* an acquire that never waits
CanAcquire_always(s) == TRUE

\* asyncio.Semaphore.acquire returns at once only while a permit is left
CanAcquire(s) == s > 0

\* an exit of `async with` that keeps the permit when the body raised
aexit_unless_raised(s, err) == IF err = NoErr THEN s + 1 ELSE s

\* an exit of `async with` that never gives the permit back
aexit_keep(s, err) == s

\* leaving `async with self._semaphore` (ocr_client.py:56): __aexit__ releases
\* the permit whether the body returned or raised
aexit(s, err) == s + 1

\* a page task that sends its call again after the call has failed
TaskStart_reissue(r, i) ==
    /\ i \in 1..Len(tasks[r])
    /\ tasks[r][i].st \in {"pending", "failed"}
    /\ IF tasks[r][i].client = "deepseek"
         THEN CanAcquire(sem) /\ sem' = sem - 1
         ELSE sem' = sem
    /\ tasks' = [tasks EXCEPT ![r][i].st = "inflight"]
    /\ calls' = [calls EXCEPT ![r].ocr = @ + 1]
    /\ UNCHANGED <<cfg, pc, req, loc, store, outcome, text, cleaned, arg, ret, OCR_LOCK, thread>>

\* a page task runs up to its outbound call: the multimodal client first takes
\* a permit (`async with self._semaphore`), the PaddleOCR client has no gate
TaskStart(r, i) ==
    /\ i \in 1..Len(tasks[r])
    /\ tasks[r][i].st = "pending"
    /\ IF tasks[r][i].client = "deepseek"
         THEN CanAcquire(sem) /\ sem' = sem - 1
         ELSE sem' = sem
    /\ tasks' = [tasks EXCEPT ![r][i].st = "inflight"]
    /\ calls' = [calls EXCEPT ![r].ocr = @ + 1]
    /\ UNCHANGED <<cfg, pc, req, loc, store, outcome, text, cleaned, arg, ret, OCR_LOCK, thread>>

\* the backend answers a page task: the task returns its text or raises, and
\* leaving `async with` gives the permit back.  gather hands the first
\* exception of any task to its awaiter; the other tasks are left running.
\* (overtaken: a page task has ended before the task of an earlier page.)
TaskDone(r, i, resp) ==
    /\ i \in 1..Len(tasks[r])
    /\ tasks[r][i].st = "inflight"
    /\ LET deepseek == tasks[r][i].client = "deepseek"
           d == IF deepseek THEN DeepSeekDecode(resp) ELSE PaddleDecode(resp)
       IN  /\ deepseek = ("exc" \in DOMAIN resp)
           /\ sem' = IF deepseek THEN aexit(sem, d.err) ELSE sem
           /\ tasks' = [tasks EXCEPT ![r][i].st = IF d.err = NoErr THEN "done" ELSE "failed",
                                     ![r][i].out = d.text,
                                     ![r][i].err = d.err]
           /\ loc' = [loc EXCEPT
                        ![r].overtaken = @ \/ \E j \in 1..(i - 1) : Running(tasks[r][j]),
                        ![r].gather_err = IF d.err # NoErr /\ @ = NoErr THEN d.err ELSE @]
    /\ UNCHANGED <<cfg, pc, req, store, calls, outcome, text, cleaned, arg, ret, OCR_LOCK, thread>>

\* a result that names the page-image bucket whether or not pages were staged
MakeResult_bucket_always(o, l, texts, combined, stored) ==
    [output_format |-> o.output_format,
     prompt_used |-> l.prompt,
     total_pages |-> Len(Enumerate(texts)),
     pages |-> Enumerate(texts),
     combined_text |-> combined,
     stored_bucket |-> stored.bucket,
     stored_object_name |-> stored.key,
     source_bucket |-> l.orig.bucket,
     source_object_name |-> l.orig.key,
     converted_pdf_bucket |-> l.pdf.bucket,
     converted_pdf_object |-> l.pdf.key,
     image_bucket |-> minio_page_images_bucket,
     image_objects |-> l.image_keys]

\* service.py:154-168
MakeResult(o, l, texts, combined, stored) ==
    [output_format |-> o.output_format,
     prompt_used |-> l.prompt,
     total_pages |-> Len(Enumerate(texts)),
     pages |-> Enumerate(texts),
     combined_text |-> combined,
     stored_bucket |-> stored.bucket,
     stored_object_name |-> stored.key,
     source_bucket |-> l.orig.bucket,
     source_object_name |-> l.orig.key,
     converted_pdf_bucket |-> l.pdf.bucket,
     converted_pdf_object |-> l.pdf.key,
     image_bucket |-> IF l.image_keys # << >> THEN minio_page_images_bucket ELSE None,
     image_objects |-> l.image_keys]

\* a return after which the coroutine starts over
Return_and_restart(r, res) ==
    /\ pc' = [pc EXCEPT ![r] = "idle"]
    /\ outcome' = [outcome EXCEPT ![r] = [status |-> "returned", err |-> NoErr, result |-> res]]

Return(r, res) ==
    /\ pc' = [pc EXCEPT ![r] = "done"]
    /\ outcome' = [outcome EXCEPT ![r] = [status |-> "returned", err |-> NoErr, result |-> res]]

\* gather(..., return_exceptions=True): returns once every task has finished
GatherReady_any_outcome(ts) == \A i \in 1..Len(ts) : ts[i].st \in {"done", "failed"}

\* gather returns once every task has returned (and never when one raised)
GatherReady(ts) == \A i \in 1..Len(ts) : ts[i].st = "done"

\* service.py:144-168 and _maybe_store_result up to its await: gather returns
\* the texts in input order; aggregation; the result is returned, or its
\* upload is handed to the executor
GatherReturn(r) ==
    /\ pc[r] = "gather"
    /\ GatherReady(tasks[r])
    /\ LET o == req[r].options
           texts == [i \in 1..Len(tasks[r]) |-> tasks[r][i].out]
           combined == Join(<<NL, NL>>, texts)
           l1 == [loc[r] EXCEPT !.texts = texts, !.combined = combined]
       IN
       IF o.store_result \/ cfg.persist_results_by_default
         THEN IF ~cfg.storage
                THEN /\ Fail(r, Err("StorageUnavailableError", "Storage client is not configured"))
                     /\ loc' = [loc EXCEPT ![r] = l1]
                     /\ calls' = calls
                ELSE /\ pc' = [pc EXCEPT ![r] = "store_result"]
                     /\ loc' = [loc EXCEPT ![r] =
                           [l1 EXCEPT !.stored =
                              Ref(IF o.store_bucket # None THEN o.store_bucket
                                  ELSE minio_default_bucket,
                                  IF o.store_object_name # << >> THEN o.store_object_name
                                  ELSE build_object_name(l1.payload.stem, o.output_format,
                                                         task_id_of(r)))]]
                     /\ calls' = [calls EXCEPT ![r].put_result = @ + 1]
                     /\ outcome' = outcome
         ELSE /\ Return(r, MakeResult(o, l1, texts, combined, NoRef))
              /\ loc' = [loc EXCEPT ![r] = l1]
              /\ calls' = calls
    /\ UNCHANGED <<cfg, req, tasks, sem, store, text, cleaned, arg, ret, OCR_LOCK, thread>>

\* gather raises the first exception of a task into _process_payload
GatherRaise(r) ==
    /\ pc[r] = "gather"
    /\ loc[r].gather_err # NoErr
    /\ Fail(r, loc[r].gather_err)
    /\ UNCHANGED <<cfg, req, loc, tasks, sem, store, calls, text, cleaned, arg, ret, OCR_LOCK, thread>>

\* the upload of the result returns (service.py:197-205), then the
\* DocumentResult is built and returned
ResultStored(r, ok) ==
    /\ pc[r] = "store_result"
    /\ IF ~ok
         THEN /\ Fail(r, Err("S3Error", "put_object failed"))
              /\ store' = store
         ELSE LET l == loc[r] IN
              /\ store' = upload_text(store, l.stored.bucket, l.stored.key, l.combined)
              /\ Return(r, MakeResult(req[r].options, l, l.texts, l.combined, l.stored))
    /\ UNCHANGED <<cfg, req, loc, tasks, sem, calls, text, cleaned, arg, ret, OCR_LOCK, thread>>

(***************************************************************************)
(* Specifications.                                                         *)
(***************************************************************************)
\* one request, any payload and options, any orchestrator, every outcome of
\* the collaborators
Next ==
    \/ \E p \in Payloads, o \in Options : Receive(1, p, o)
    \/ \E ok \in BOOLEAN : OriginalStored(1, ok)
    \/ \E ok \in BOOLEAN, n \in PageCounts, fetch_ok \in BOOLEAN : ConvertDone(1, ok, n, fetch_ok)
    \/ Rasterized(1)
    \/ \E put_ok \in BOOLEAN, presign_ok \in BOOLEAN : StageImage(1, put_ok, presign_ok)
    \/ \E presign_ok \in BOOLEAN : Dispatch(1, presign_ok)
    \/ \E i \in 1..(max_pages + 1) : TaskStart(1, i)
    \/ \E i \in 1..(max_pages + 1), resp \in DeepSeekResponses \cup PaddleResponses :
          TaskDone(1, i, resp)
    \/ GatherReturn(1)
    \/ GatherRaise(1)
    \/ \E ok \in BOOLEAN : ResultStored(1, ok)

Spec == Init /\ [][Next]_vars

\* several requests at once through the cached orchestrator and its one
\* multimodal client: PDFs sent to the multimodal backend
ConcPageCounts == {1, 2}
ConcPayloads == { FilePayload("f", "pdf", NoContentType, PdfData(n)) : n \in ConcPageCounts }
ConcOptions ==
    { o \in Options : o.provider = "deepseek" /\ o.output_format = "plain_text"
                      /\ o.prompt = None /\ ~o.store_result }
ConcResponses == { resp \in DeepSeekResponses : resp.content # <<"U+00E9", NL>> }

NextConc ==
    \/ \E r \in Reqs, p \in ConcPayloads, o \in ConcOptions : Receive(r, p, o)
    \/ \E r \in Reqs : OriginalStored(r, TRUE)
    \/ \E r \in Reqs : Rasterized(r)
    \/ \E r \in Reqs : StageImage(r, TRUE, TRUE)
    \/ \E r \in Reqs : Dispatch(r, TRUE)
    \/ \E r \in Reqs, i \in ConcPageCounts : TaskStart(r, i)
    \/ \E r \in Reqs, i \in ConcPageCounts, resp \in ConcResponses : TaskDone(r, i, resp)
    \/ \E r \in Reqs : GatherReturn(r)
    \/ \E r \in Reqs : GatherRaise(r)

SpecConc == InitConc /\ [][NextConc]_vars

\* two requests at once, scheduled fairly
LiveReqs == {1, 2}

NextLive ==
    \/ \E r \in LiveReqs, p \in ConcPayloads, o \in ConcOptions : Receive(r, p, o)
    \/ \E r \in LiveReqs : OriginalStored(r, TRUE)
    \/ \E r \in LiveReqs : Rasterized(r)
    \/ \E r \in LiveReqs : StageImage(r, TRUE, TRUE)
    \/ \E r \in LiveReqs : Dispatch(r, TRUE)
    \/ \E r \in LiveReqs, i \in ConcPageCounts : TaskStart(r, i)
    \/ \E r \in LiveReqs, i \in ConcPageCounts, resp \in ConcResponses : TaskDone(r, i, resp)
    \/ \E r \in LiveReqs : GatherReturn(r)
    \/ \E r \in LiveReqs : GatherRaise(r)

\* the scheduling: the event loop resumes every coroutine whose await has
\* ended, every outbound call ends, and a page task that can take a permit
\* from then on does take one (asyncio.Semaphore wakes its waiters in turn)
FairLive ==
    \A r \in LiveReqs :
        /\ WF_vars(OriginalStored(r, TRUE))
        /\ WF_vars(Rasterized(r))
        /\ WF_vars(StageImage(r, TRUE, TRUE))
        /\ WF_vars(Dispatch(r, TRUE))
        /\ WF_vars(GatherReturn(r))
        /\ WF_vars(GatherRaise(r))
        /\ \A i \in ConcPageCounts :
              /\ WF_vars(TaskStart(r, i))
              /\ WF_vars(\E resp \in ConcResponses : TaskDone(r, i, resp))

SpecLive == InitConc /\ [][NextLive]_vars /\ FairLive

(***************************************************************************)
(* text_cleaner.py: strip_layout_tags, a pure function of a text.  The two *)
(* regular expressions are computed as re.sub computes them: leftmost      *)
(* matches, left to right, never overlapping, over the original string.    *)
(***************************************************************************)
\* \s and [A-Za-z0-9_], over the characters the texts below are made of
Whitespace == {" ", NL}
WordChars == {"a", "d", "e", "f", "r", "t", "1"}

\* the tokens of _INLINE_TAG_RE: <\|/?(?:ref|det)\|>
InlineTags ==
    { <<"<", "|", "r", "e", "f", "|", ">">>,
      <<"<", "|", "/", "r", "e", "f", "|", ">">>,
      <<"<", "|", "d", "e", "t", "|", ">">>,
      <<"<", "|", "/", "d", "e", "t", "|", ">">> }

\* the literal p stands in t at position i
IsPrefixAt(t, i, p) ==
    /\ i + Len(p) - 1 <= Len(t)
    /\ SubSeq(t, i, i + Len(p) - 1) = p

\* the length of the match of _INLINE_TAG_RE at position i, 0 when none
InlineMatchLen(t, i) ==
    IF \E tag \in InlineTags : IsPrefixAt(t, i, tag)
        THEN Len(CHOOSE tag \in InlineTags : IsPrefixAt(t, i, tag))
    ELSE 0

\* _INLINE_TAG_RE.sub("", t), from position i on
RECURSIVE SubInline(_, _)
SubInline(t, i) ==
    IF i > Len(t) THEN << >>
    ELSE LET m == InlineMatchLen(t, i) IN
         IF m > 0 THEN SubInline(t, i + m)
         ELSE <<t[i]>> \o SubInline(t, i + 1)

\* a greedy run `[S]*` from position i: the first position not in S
RECURSIVE SkipWhile(_, _, _)
SkipWhile(t, i, S) ==
    IF i > Len(t) \/ t[i] \notin S THEN i
    ELSE SkipWhile(t, i + 1, S)

\* (?m)^ : the start of the string, or just after a newline
AtLineStart(t, i) == i = 1 \/ t[i - 1] = NL

\* \s*(?:\n|$) from position p: the position after the match, 0 when none.
\* The greedy run takes all whitespace; at the end of the string $ matches;
\* otherwise the run is given back down to its last newline, which \n takes.
LayoutTail(t, p) ==
    LET q == SkipWhile(t, p, Whitespace)
        nls == { n \in p..(q - 1) : t[n] = NL }
    IN  IF q > Len(t) THEN q
        ELSE IF nls = {} THEN 0
        ELSE (CHOOSE n \in nls : \A x \in nls : x <= n) + 1

\* [^\n]*?\]\]\s*(?:\n|$) from position k: the lazy run stops at the first
\* "]]" of the line after which the tail matches
LayoutClose(t, k) ==
    LET ms == { m \in k..(Len(t) - 1) :
                  /\ t[m] = "]" /\ t[m + 1] = "]"
                  /\ \A x \in k..(m - 1) : t[x] # NL
                  /\ LayoutTail(t, m + 2) > 0 }
    IN  IF ms = {} THEN 0
        ELSE LayoutTail(t, (CHOOSE m \in ms : \A x \in ms : m <= x) + 2)

\* the position after the match of _LAYOUT_LINE_RE at position i, 0 when none
LayoutMatchEnd(t, i) ==
    IF ~AtLineStart(t, i) THEN 0
    ELSE LET j == SkipWhile(t, i, Whitespace)
             k == SkipWhile(t, j, WordChars)
         IN  IF k > j /\ IsPrefixAt(t, k, <<"[", "[">>)
                 THEN LayoutClose(t, k + 2)
             ELSE 0

\* _LAYOUT_LINE_RE.sub("", t), from position i on
RECURSIVE SubLayout(_, _)
SubLayout(t, i) ==
    IF i > Len(t) THEN << >>
    ELSE LET e == LayoutMatchEnd(t, i) IN
         IF e > 0 THEN SubLayout(t, e)
         ELSE <<t[i]>> \o SubLayout(t, i + 1)

strip_layout_tags(t) == SubInline(SubLayout(t, 1), 1)

\* the texts handed to strip_layout_tags: up to MaxPieces pieces in a row
MaxPieces == 4
MaxPasses == 2

Pieces ==
    { <<"<", "|">>, <<"r", "e", "f">>, <<"|", ">">>,
      <<"<", "|", "/", "d", "e", "t", "|", ">">>,
      <<"t", "[", "[", "1", "]", "]">>,
      <<NL>>, <<" ">>, <<"a">> }

RECURSIVE TextsOfPieces(_)
TextsOfPieces(n) ==
    IF n = 0 THEN { << >> }
    ELSE LET shorter == TextsOfPieces(n - 1) IN
         shorter \cup { p \o t : p \in Pieces, t \in shorter }

InitText ==
    /\ cfg = ProductionConfig
    /\ InitRest
    /\ text \in TextsOfPieces(MaxPieces)
    /\ cleaned = << >>
    /\ NoCall
    /\ NoPredict

\* one more call of strip_layout_tags, on what the previous call returned
Strip ==
    /\ Len(cleaned) < MaxPasses
    /\ cleaned' = Append(cleaned,
                         strip_layout_tags(IF cleaned = << >> THEN text
                                           ELSE cleaned[Len(cleaned)]))
    /\ UNCHANGED <<cfg, pc, req, loc, tasks, sem, store, calls, outcome, text, arg, ret, OCR_LOCK, thread>>

NextText == Strip

SpecText == InitText /\ [][NextText]_vars

(***************************************************************************)
(* Two requests at once that submit files of the same name and store their *)
(* results, under the default key or under a key the caller names.         *)
(***************************************************************************)
KeyPayloads ==
    { FilePayload("f", "pdf", NoContentType, PdfData(1)),
      FilePayload("f", "pdf", NoContentType, PdfData(0)),
      FilePayload("f", "docx", NoContentType, OfficeData) }
KeyOptions ==
    [output_format : {"plain_text"}, prompt : {None},
     store_result : {TRUE}, store_bucket : {None},
     store_object_name : {<< >>, <<"shared.txt">>}, provider : {"deepseek"}]
KeyResponses == {[exc |-> FALSE, null |-> FALSE, content |-> t] : t \in Texts}

NextKeys ==
    \/ \E r \in LiveReqs, p \in KeyPayloads, o \in KeyOptions : Receive(r, p, o)
    \/ \E r \in LiveReqs : OriginalStored(r, TRUE)
    \/ \E r \in LiveReqs : ConvertDone(r, TRUE, 1, TRUE)
    \/ \E r \in LiveReqs : Rasterized(r)
    \/ \E r \in LiveReqs : StageImage(r, TRUE, TRUE)
    \/ \E r \in LiveReqs : Dispatch(r, TRUE)
    \/ \E r \in LiveReqs : TaskStart(r, 1)
    \/ \E r \in LiveReqs, resp \in KeyResponses : TaskDone(r, 1, resp)
    \/ \E r \in LiveReqs : GatherReturn(r)
    \/ \E r \in LiveReqs : ResultStored(r, TRUE)

SpecKeys == InitConc /\ [][NextKeys]_vars

(***************************************************************************)
(* One request whose provider answers with texts that carry layout markup. *)
(***************************************************************************)
\* "<|ref|>a<|/ref|>", "t[[1]]" followed by a line "a", and a text without markup
MarkupTexts ==
    { <<"<", "|", "r", "e", "f", "|", ">", "a", "<", "|", "/", "r", "e", "f", "|", ">">>,
      <<"t", "[", "[", "1", "]", "]", NL, "a">>,
      <<"a">> }
MarkupResponses ==
    {[exc |-> FALSE, null |-> FALSE, content |-> t] : t \in MarkupTexts}
    \cup {PaddleJson("dict", {"text"}, t, EmptyText, << >>) : t \in MarkupTexts}
MarkupOptions ==
    { o \in Options : o.provider \in {"deepseek", "paddle"} /\ o.prompt = None
                      /\ ~o.store_result }

NextMarkup ==
    \/ \E p \in ConcPayloads, o \in MarkupOptions : Receive(1, p, o)
    \/ OriginalStored(1, TRUE)
    \/ Rasterized(1)
    \/ StageImage(1, TRUE, TRUE)
    \/ Dispatch(1, TRUE)
    \/ \E i \in ConcPageCounts : TaskStart(1, i)
    \/ \E i \in ConcPageCounts, resp \in MarkupResponses : TaskDone(1, i, resp)
    \/ GatherReturn(1)

SpecMarkup == InitConc /\ [][NextMarkup]_vars

(***************************************************************************)
(* The functions of the service that decide by cases, each called on its   *)
(* own with every argument of a bounded set.                               *)
(***************************************************************************)
\* payloads as a caller may build them: any suffix with any declared type
CallContentTypes ==
    ContentTypes \cup {<<"image", "jpeg">>, <<"application", "pdf">>, <<"text", "plain">>}
CallPayloads ==
    { FilePayload("f", sfx, ct, d) :
        sfx \in Suffixes \cup IMAGE_SUFFIXES, ct \in CallContentTypes,
        d \in {PdfData(1), ImgData, OfficeData} }

CallArgs ==
    { [fn |-> "get_processor", x |-> p] : p \in CallPayloads }
    \cup { [fn |-> "PaddleDecode", x |-> resp] : resp \in PaddleResponses }

InitCall ==
    /\ cfg = ProductionConfig
    /\ InitRest
    /\ NoCleaning
    /\ arg \in CallArgs
    /\ ret = << >>
    /\ NoPredict

\* ProcessorFactory.get_processor(payload)
Call_get_processor ==
    /\ arg.fn = "get_processor"
    /\ ret = << >>
    /\ ret' = <<get_processor(arg.x)>>
    /\ UNCHANGED <<cfg, pc, req, loc, tasks, sem, store, calls, outcome, text, cleaned, arg, OCR_LOCK, thread>>

\* PaddleOCRClient._process_single from the answer of the service on
Call_PaddleDecode ==
    /\ arg.fn = "PaddleDecode"
    /\ ret = << >>
    /\ ret' = <<PaddleDecode(arg.x)>>
    /\ UNCHANGED <<cfg, pc, req, loc, tasks, sem, store, calls, outcome, text, cleaned, arg, OCR_LOCK, thread>>

NextCall ==
    \/ Call_get_processor
    \/ Call_PaddleDecode

SpecCall == InitCall /\ [][NextCall]_vars

(***************************************************************************)
(* The claims.                                                             *)
(***************************************************************************)
Returned(r) == outcome[r].status = "returned"
Raised(r) == outcome[r].status = "raised"

\* the whole-document path: PaddleOCR, markdown, and an office document
\* submitted (the converted PDF exists)
WholeDocumentPath(r) ==
    /\ req[r].options.provider = "paddle"
    /\ req[r].options.output_format = "markdown"
    /\ req[r].payload.suffix \in DOC_SUFFIXES

\* C1 as stated: in every returned DocumentResult, len(pages) = total_pages =
\* the number of page images the rasterizer produced, and pages[i].index = i,
\* for any provider, output mode and input type.
C1_PagesMatchRasterizedAlways ==
    Returned(1) =>
        LET res == outcome[1].result IN
        /\ Len(res.pages) = res.total_pages
        /\ res.total_pages = loc[1].images
        /\ \A i \in 1..Len(res.pages) : res.pages[i].index = i - 1

\* C1 as amended: in every returned DocumentResult, len(pages) = total_pages
\* and pages[i].index = i; total_pages is the number of page images the
\* rasterizer produced, except on the whole-document path, where it is 1.
C1_PagesMatchRasterized ==
    Returned(1) =>
        LET res == outcome[1].result IN
        /\ Len(res.pages) = res.total_pages
        /\ res.total_pages = IF WholeDocumentPath(1) THEN 1 ELSE loc[1].images
        /\ \A i \in 1..Len(res.pages) : res.pages[i].index = i - 1

C1_Witness ==
    /\ Returned(1)
    /\ ~WholeDocumentPath(1)
    /\ outcome[1].result.total_pages = max_pages
    /\ loc[1].images = max_pages

\* the texts of pages[1..k] with the separator between neighbours, built from
\* the last page backwards
RECURSIVE PagesText(_, _)
PagesText(pages, k) ==
    IF k = 0 THEN << >>
    ELSE IF k = 1 THEN pages[1].text
    ELSE PagesText(pages, k - 1) \o <<"\n", "\n">> \o pages[k].text

\* C2: in every returned DocumentResult, combined_text is the texts of the
\* pages in index order, joined by newline-newline (empty when no pages).
C2_CombinedTextIsJoin ==
    Returned(1) =>
        LET res == outcome[1].result IN
        res.combined_text = PagesText(res.pages, Len(res.pages))

C2_Witness ==
    /\ Returned(1)
    /\ Len(outcome[1].result.pages) = 2
    /\ outcome[1].result.pages[1].text = <<"U+00E9", NL>>
    /\ outcome[1].result.pages[2].text = <<"a">>
    /\ outcome[1].result.combined_text = <<"U+00E9", NL, NL, NL, "a">>

\* the recognition requests in flight to the multimodal backend
InFlight ==
    { <<r, i>> \in Reqs \X (1..(max_pages + 1)) :
        /\ i <= Len(tasks[r])
        /\ tasks[r][i].client = "deepseek"
        /\ tasks[r][i].st = "inflight" }

\* C3: at every moment at most max_workers recognition requests are in
\* flight to the multimodal backend, over all documents being processed.
C3_InFlightBounded == Cardinality(InFlight) <= max_workers

C3_Witness ==
    /\ Cardinality(InFlight) = max_workers
    /\ \E a \in InFlight, b \in InFlight : a[1] # b[1]
    /\ \E r \in Reqs : \E i \in 1..Len(tasks[r]) : tasks[r][i].st = "pending"

\* C4: a request has not returned or raised while one of its page tasks is
\* still running.
C4_NoTaskOutlivesRequest ==
    \A r \in Reqs :
        (Returned(r) \/ Raised(r)) =>
            \A i \in 1..Len(tasks[r]) : ~Running(tasks[r][i])

\* C5: once the task of one page has failed, the request returns no
\* DocumentResult, exposes no PageResult, and writes no result object; when it
\* has ended, it has failed with the error of a page task.
C5_FailedPageFailsRequest ==
    (\E i \in 1..Len(tasks[1]) : tasks[1][i].st = "failed") =>
        /\ ~Returned(1)
        /\ outcome[1].result = NoResult
        /\ pc[1] \notin {"store_result", "done"}
        /\ calls[1].put_result = 0
        /\ \A o \in store : o.content.fmt # "text"
        /\ Raised(1) => outcome[1].err \in { tasks[1][i].err : i \in 1..Len(tasks[1]) }

C5_Witness ==
    /\ Raised(1)
    /\ pc[1] = "failed"
    /\ req[1].options.store_result
    /\ \E i \in 1..Len(tasks[1]) : tasks[1][i].st = "failed"
    /\ \E i \in 1..Len(tasks[1]) : tasks[1][i].st = "done"

\* every call request r has made over the network
NetworkCalls(r) ==
    calls[r].put_original + calls[r].convert + calls[r].fetch
        + calls[r].put_image + calls[r].presign + calls[r].ocr + calls[r].put_result

\* C6: a request with a provider outside {deepseek, paddle} does not return,
\* and when it fails with the unknown-provider error it has made no network
\* call.
C6_UnknownProviderBeforeNetwork ==
    (pc[1] # "idle" /\ req[1].options.provider \notin {"deepseek", "paddle"}) =>
        /\ ~Returned(1)
        /\ (Raised(1) /\ outcome[1].err = Err("OCRProcessException", "Unknown provider"))
              => NetworkCalls(1) = 0

ConversionUnavailable == Err("OCRProcessException", "MinIO/converter is required for doc/docx")

\* C7 as stated: a doc/docx payload on an orchestrator without a converter
\* fails with the conversion-unavailable error, and neither processor
\* selection nor rasterization is attempted.
C7_NoConverterAlwaysConversionUnavailable ==
    (pc[1] # "idle" /\ req[1].payload.suffix \in DOC_SUFFIXES /\ ~cfg.converter) =>
        /\ ~Returned(1)
        /\ Raised(1) => outcome[1].err = ConversionUnavailable
        /\ calls[1].select = 0
        /\ calls[1].rasterize = 0

\* C7 as amended: such a request never returns, never selects a processor,
\* never rasterizes and never calls the converter; once its original has been
\* staged it has failed with the conversion-unavailable error.
C7_NoConverter ==
    (pc[1] # "idle" /\ req[1].payload.suffix \in DOC_SUFFIXES /\ ~cfg.converter) =>
        /\ ~Returned(1)
        /\ loc[1].orig # NoRef => (Raised(1) /\ outcome[1].err = ConversionUnavailable)
        /\ (Raised(1) /\ loc[1].orig = NoRef) => outcome[1].err # ConversionUnavailable
        /\ calls[1].select = 0
        /\ calls[1].rasterize = 0
        /\ calls[1].convert = 0

C7_Witness ==
    /\ req[1].payload.suffix = "docx"
    /\ ~cfg.converter
    /\ Raised(1)
    /\ outcome[1].err = ConversionUnavailable
    /\ loc[1].orig # NoRef

\* the PDF rasterizer has been given a PDF with more pages than the limit
OverLimit(r) ==
    /\ pc[r] \notin {"idle", "store_original", "convert", "rasterize"}
    /\ loc[r].processor = "pdf"
    /\ loc[r].payload.data.fmt = "pdf"
    /\ loc[r].payload.data.pages > max_pages

\* C8: a PDF over the page limit fails the request with an error of the
\* taxonomy, reported to the caller with its detail; no page is rendered or
\* staged, no provider is called, no PageResult is produced.
C8_PageLimitExceededReported ==
    OverLimit(1) =>
        /\ Raised(1)
        /\ outcome[1].err.cls \in OCRExceptionClasses
        /\ http_response(outcome[1].err) =
              [status_code |-> 400, error |-> "PDF has more pages than allowed"]
        /\ calls[1].rendered = 0
        /\ calls[1].put_image = 0
        /\ calls[1].ocr = 0
        /\ outcome[1].result = NoResult

UnsupportedSuffix(sfx) == sfx \notin ({"pdf"} \cup IMAGE_SUFFIXES \cup DOC_SUFFIXES)

\* C9 as stated, for a request whose original has been staged: a payload
\* with an unsupported suffix fails with UnsupportedFormat and reaches neither
\* rasterization nor a provider.
C9_UnsupportedSuffixAlwaysRejected ==
    (/\ pc[1] # "idle"
     /\ UnsupportedSuffix(req[1].payload.suffix)
     /\ loc[1].orig # NoRef) =>
        /\ Raised(1)
        /\ outcome[1].err.cls = "UnsupportedFileTypeError"
        /\ calls[1].rasterize = 0
        /\ calls[1].ocr = 0

\* C9 as amended: a payload with an unsupported suffix whose declared content
\* type does not begin with image/ never returns and reaches neither
\* rasterization nor a provider; once its original has been staged it has
\* failed with UnsupportedFormat.
C9_UnsupportedSuffixRejected ==
    (/\ pc[1] # "idle"
     /\ UnsupportedSuffix(req[1].payload.suffix)
     /\ ~StartsWithImagePrefix(req[1].payload.content_type)) =>
        /\ ~Returned(1)
        /\ loc[1].orig # NoRef =>
              (Raised(1) /\ outcome[1].err.cls = "UnsupportedFileTypeError")
        /\ (Raised(1) /\ loc[1].orig = NoRef) =>
              outcome[1].err.cls # "UnsupportedFileTypeError"
        /\ calls[1].rasterize = 0
        /\ calls[1].rendered = 0
        /\ calls[1].ocr = 0

C9_Witness ==
    /\ req[1].payload.suffix \in {"exe", ""}
    /\ req[1].payload.content_type = NoContentType
    /\ Raised(1)
    /\ outcome[1].err = Err("UnsupportedFileTypeError", "Unsupported file type")
    /\ calls[1].put_original = 1

\* C10: without usable storage every call of _process_payload fails with
\* StorageUnavailable before any conversion, rasterization, provider call or
\* write.
C10_StorageUnavailableKind ==
    (pc[1] # "idle" /\ ~StorageUsable(cfg)) =>
        /\ Raised(1)
        /\ outcome[1].err.cls = "StorageUnavailableError"
        /\ NetworkCalls(1) = 0
        /\ calls[1].select = 0
        /\ calls[1].rasterize = 0
        /\ store = {}

\* the texts of the page tasks, in task order
TaskTexts(r) == [i \in 1..Len(tasks[r]) |-> tasks[r][i].out]

\* C11: the stages of a request happen in the order Received, OriginalStaged,
\* Normalized, Rasterized, ImagesStaged, PromptResolved, Dispatched,
\* Aggregated, ResultPersisted, Done: while the request is in a stage no
\* effect of a later stage has happened, an effect happens only after the
\* stages before it have completed, and no stage is entered twice.
C11_StagesInOrder ==
    LET c == calls[1]
        l == loc[1]
        office == req[1].payload.suffix \in DOC_SUFFIXES
    IN
    \* no stage twice
    /\ c.put_original <= 1 /\ c.convert <= 1 /\ c.select <= 1
    /\ c.rasterize <= 1 /\ c.put_result <= 1
    \* while in a stage, nothing of a later stage has happened
    /\ pc[1] \in {"idle", "store_original"} => c.convert = 0
    /\ pc[1] \in {"idle", "store_original", "convert"} =>
          c.select = 0 /\ c.rasterize = 0 /\ c.rendered = 0
    /\ pc[1] \in {"idle", "store_original", "convert", "rasterize"} =>
          c.put_image = 0 /\ l.images = -1
    /\ pc[1] \in {"idle", "store_original", "convert", "rasterize", "stage_images",
                  "dispatch"} =>
          l.prompt = None /\ c.ocr = 0 /\ tasks[1] = << >>
    /\ pc[1] \notin {"store_result", "done", "failed"} => c.put_result = 0
    /\ pc[1] # "done" => ~Returned(1)
    \* an effect follows the completion of the stages before it
    /\ c.convert > 0 => l.orig # NoRef
    /\ c.rasterize > 0 => l.orig # NoRef /\ (office => l.pdf # NoRef /\ c.fetch = 1)
    /\ c.put_image > 0 => c.rasterize = 1 /\ l.images > 0
    /\ (c.ocr > 0 \/ tasks[1] # << >>) =>
          /\ l.images >= 0
          /\ Len(l.image_urls) = l.images
          /\ c.put_image = l.images
          /\ l.prompt # None
    /\ c.put_result > 0 =>
          /\ \A i \in 1..Len(tasks[1]) : tasks[1][i].st = "done"
          /\ l.texts = TaskTexts(1)
          /\ l.combined = Join(<<NL, NL>>, l.texts)
    /\ Returned(1) =>
          /\ c.put_original = 1
          /\ c.rasterize = 1
          /\ c.ocr = Len(tasks[1])
          /\ outcome[1].result.stored_bucket # None => c.put_result = 1

C11_Witness ==
    /\ Returned(1)
    /\ req[1].payload.suffix = "docx"
    /\ calls[1].convert = 1
    /\ calls[1].put_image = 2
    /\ calls[1].ocr = 2
    /\ calls[1].put_result = 1

\* the errors the code between two awaits can raise, by where the coroutine is
ErrorsOfStage(at) ==
    CASE at = "idle" ->
           { Err("OCRProcessException", "MinIO/storage is required for processing") }
      [] at = "store_original" ->
           { Err("S3Error", "put_object failed"),
             Err("OCRProcessException", "MinIO/converter is required for doc/docx"),
             Err("UnsupportedFileTypeError", "Unsupported file type") }
      [] at = "convert" ->
           { Err("OCRProcessException", "Convert failed"),
             Err("StorageUnavailableError", "get_object failed") }
      [] at = "rasterize" ->
           { Err("FileDataError", "cannot open document"),
             Err("ValueError", "PDF has more pages than allowed"),
             Err("UnidentifiedImageError", "cannot identify image file") }
      [] at = "stage_images" ->
           { Err("S3Error", "put_object failed"),
             Err("StorageUnavailableError", "presign failed") }
      [] at = "dispatch" ->
           { Err("StorageUnavailableError", "presign failed"),
             Err("OCRProcessException", "PaddleOCR client is not configured"),
             Err("OCRProcessException", "Unknown provider") }
      [] at = "gather" ->
           { Err("OCRProcessException", "vLLM OCR request failed"),
             Err("OCRProcessException", "Empty OCR response"),
             Err("OCRProcessException", "PaddleOCR request failed"),
             Err("OCRProcessException", "Unexpected PaddleOCR response format"),
             Err("StorageUnavailableError", "Storage client is not configured") }
      [] at = "store_result" ->
           { Err("S3Error", "put_object failed") }
      [] OTHER -> {}

\* what a request has done, leaving aside the recognition calls of page
\* tasks that were already created
EffectsButRecognition(c) == [c EXCEPT !.ocr = 0]

\* C12: a failure in a stage takes the request at once to the Failed outcome,
\* which carries the error of that stage; from then on the outcome never
\* changes, the request starts no later stage (no upload, conversion,
\* rasterization, aggregation or result write) and never reaches Done.
C12_FailureIsTerminal ==
    [][ /\ (outcome[1].status # "raised" /\ outcome'[1].status = "raised") =>
              /\ pc[1] # "failed" /\ pc'[1] = "failed"
              /\ outcome'[1].err \in ErrorsOfStage(pc[1])
              /\ outcome'[1].result = NoResult
        /\ (pc[1] # "failed" /\ pc'[1] = "failed") => outcome'[1].status = "raised"
        /\ pc[1] = "failed" =>
              /\ pc'[1] = "failed"
              /\ outcome'[1] = outcome[1]
              /\ store' = store
              /\ EffectsButRecognition(calls'[1]) = EffectsButRecognition(calls[1])
              /\ Len(tasks'[1]) = Len(tasks[1])
              /\ loc'[1].texts = loc[1].texts
              /\ loc'[1].stored = loc[1].stored
      ]_vars

C12_Witness ==
    /\ Raised(1)
    /\ pc[1] = "failed"
    /\ outcome[1].err = Err("OCRProcessException", "Convert failed")
    /\ calls[1].convert = 1
    /\ calls[1].rasterize = 0

\* the character of a code point, over the characters of the texts
Characters == {NL, " ", "a", "U+00E9"}
CharOfCodePoint(cp) ==
    IF \E ch \in Characters : CodePoint(ch) = cp
        THEN CHOOSE ch \in Characters : CodePoint(ch) = cp
    ELSE "U+FFFD"

\* bytes.decode("utf-8", errors="replace") for sequences of one and two bytes
RECURSIVE utf8_decode(_)
utf8_decode(b) ==
    IF b = << >> THEN << >>
    ELSE IF b[1] < 128
        THEN <<CharOfCodePoint(b[1])>> \o utf8_decode(Tail(b))
    ELSE IF b[1] \in 192..223 /\ Len(b) >= 2 /\ b[2] \in 128..191
        THEN <<CharOfCodePoint((b[1] - 192) * 64 + (b[2] - 128))>>
                \o utf8_decode(SubSeq(b, 3, Len(b)))
    ELSE <<"U+FFFD">> \o utf8_decode(Tail(b))

\* C13: a returned result of a request that asked for its result to be
\* stored (store_result, or persist_results_by_default) names a bucket and a
\* key, and the object under them is the UTF-8 encoding of combined_text;
\* a returned result of a request that did not names neither, and no result
\* object was written.
C13_StoredResultRoundTrip ==
    Returned(1) =>
        LET res == outcome[1].result
            objs == { o \in store : o.bucket = res.stored_bucket
                                     /\ o.key = res.stored_object_name }
        IN
        IF req[1].options.store_result \/ cfg.persist_results_by_default
          THEN /\ res.stored_bucket # None
               /\ res.stored_object_name # << >>
               /\ Cardinality(objs) = 1
               /\ \A o \in objs : /\ o.content.fmt = "text"
                                   /\ utf8_decode(o.content.text) = res.combined_text
          ELSE /\ res.stored_bucket = None
               /\ res.stored_object_name = << >>
               /\ calls[1].put_result = 0
               /\ \A o \in store : o.content.fmt # "text"

C13_Witness ==
    /\ Returned(1)
    /\ req[1].options.store_result
    /\ Len(outcome[1].result.pages) = 2
    /\ outcome[1].result.combined_text = <<"a", NL, NL, "U+00E9", NL>>
    /\ \E o \in store : o.content = Bytes("text", 0, <<97, 10, 10, 195, 169, 10>>)

\* C14: cleaning a cleaned text changes nothing:
\* strip_layout_tags(strip_layout_tags(t)) = strip_layout_tags(t) for every t.
C14_StripIdempotent ==
    Len(cleaned) >= 2 => cleaned[2] = cleaned[1]

\* the prompt the options ask for: an explicit one, else the default of the
\* output format ("" counts as no prompt)
ExpectedPrompt(o) ==
    IF o.prompt \notin {None, ""} THEN o.prompt
    ELSE IF o.output_format = "plain_text" THEN default_prompt_plain
    ELSE default_prompt_markdown

\* C15: prompt_used of a returned result, and the prompt of every call to the
\* multimodal backend, is the caller's prompt when one is supplied, else
\* default_prompt_plain for plain_text and default_prompt_markdown for
\* markdown.
C15_PromptUsed ==
    /\ Returned(1) => outcome[1].result.prompt_used = ExpectedPrompt(req[1].options)
    /\ \A i \in 1..Len(tasks[1]) :
          tasks[1][i].client = "deepseek" =>
              tasks[1][i].prompt = ExpectedPrompt(req[1].options)

C15_Witness ==
    /\ Returned(1)
    /\ req[1].options.prompt = ""
    /\ req[1].options.output_format = "plain_text"
    /\ outcome[1].result.prompt_used = default_prompt_plain
    /\ Len(tasks[1]) = 1
    /\ tasks[1][1].prompt = default_prompt_plain

\* the page tasks whose recognition call has been sent
Sent(r) == { i \in 1..Len(tasks[r]) : tasks[r][i].st # "pending" }

\* C16: nothing is retried: every page input has caused at most one
\* recognition call (also after its call failed), the converter has been
\* called at most once, and the original, each page image and the result
\* have been put at most once.
C16_NoRetries ==
    LET c == calls[1]
        l == loc[1]
    IN
    /\ c.ocr = Cardinality(Sent(1))
    /\ c.ocr <= Len(tasks[1])
    /\ c.convert <= 1
    /\ c.fetch <= 1
    /\ c.put_original <= 1
    /\ c.put_result <= 1
    /\ c.put_image <= Len(l.image_urls) + 1
    /\ l.images >= 0 => c.put_image <= l.images
    \* a put that failed was not sent again
    /\ (Raised(1) /\ outcome[1].err = Err("S3Error", "put_object failed")) =>
          c.put_original + c.put_image + c.put_result
              = Cardinality({ o \in store : o.bucket # minio_converted_pdf_bucket }) + 1

C16_Witness ==
    /\ Raised(1)
    /\ outcome[1].err = Err("OCRProcessException", "vLLM OCR request failed")
    /\ Len(tasks[1]) = 2
    /\ \A i \in 1..2 : tasks[1][i].st = "failed"
    /\ calls[1].ocr = 2

\* the inputs the provider was called with (not on the whole-document path)
PageInputs(r) ==
    IF loc[r].image_keys # << >>
        THEN [i \in 1..Len(loc[r].image_keys) |->
                presign_get(minio_page_images_bucket, loc[r].image_keys[i])]
    ELSE [i \in 1..loc[r].images |-> Bitmap(i - 1)]

\* C17: recognition keeps the order of its inputs: the i-th task works on
\* the i-th input, and a returned result has one text per input, the i-th
\* being the answer to the i-th input, in whatever order the page tasks
\* acquired the semaphore and ended.
C17_OrderPreserved ==
    /\ (tasks[1] # << >> /\ loc[1].pdf_url = NoUrl) =>
          /\ Len(tasks[1]) = Len(PageInputs(1))
          /\ \A i \in 1..Len(tasks[1]) : tasks[1][i].input = PageInputs(1)[i]
    /\ Returned(1) =>
          /\ Len(outcome[1].result.pages) = Len(tasks[1])
          /\ \A i \in 1..Len(tasks[1]) :
                outcome[1].result.pages[i].text = tasks[1][i].out

C17_Witness ==
    /\ Returned(1)
    /\ loc[1].overtaken
    /\ req[1].options.provider = "deepseek"
    /\ Len(outcome[1].result.pages) = 2
    /\ outcome[1].result.pages[1].text = <<"a">>
    /\ outcome[1].result.pages[2].text = <<"U+00E9", NL>>

\* the provider has been called (process_images has created its tasks)
Dispatched(r) ==
    pc[r] \in {"gather", "store_result", "done"} \/ (pc[r] = "failed" /\ tasks[r] # << >>)

\* the converted-PDF artifact of the request exists
ConvertedPdfExists(r) ==
    \E o \in store : /\ o.bucket = minio_converted_pdf_bucket
                      /\ o.key = converted_object_name(task_id_of(r), req[r].payload.stem)

\* C18: with the PaddleOCR provider, a markdown request that has a converted
\* PDF makes one recognition call in all, with the presigned URL of that
\* PDF; any other request makes one recognition call per page image.
C18_PaddleWholeDocument ==
    (req[1].options.provider = "paddle" /\ Dispatched(1)) =>
        IF req[1].options.output_format = "markdown" /\ ConvertedPdfExists(1)
          THEN /\ Len(tasks[1]) = 1
               /\ tasks[1][1].input =
                     presign_get(minio_converted_pdf_bucket,
                                 converted_object_name(task_id_of(1), req[1].payload.stem))
               /\ calls[1].ocr <= 1
               /\ Returned(1) => calls[1].ocr = 1
          ELSE /\ Len(tasks[1]) = loc[1].images
               /\ \A i \in 1..Len(tasks[1]) :
                     tasks[1][i].input.bucket # minio_converted_pdf_bucket
               /\ calls[1].ocr <= loc[1].images
               /\ Returned(1) => calls[1].ocr = loc[1].images

C18_Witness ==
    /\ Returned(1)
    /\ req[1].options.provider = "paddle"
    /\ req[1].options.output_format = "markdown"
    /\ ConvertedPdfExists(1)
    /\ loc[1].images = 2
    /\ calls[1].ocr = 1

\* C19: off the whole-document path the provider gets one input per
\* rasterized page: the presigned URLs of the staged page images when page
\* images were staged, bitmaps only when none was staged, never both.
C19_UrlsWhenStaged ==
    (Dispatched(1) /\ loc[1].pdf_url = NoUrl) =>
        /\ Len(tasks[1]) = loc[1].images
        /\ calls[1].put_image > 0 =>
              \A i \in 1..Len(tasks[1]) :
                  /\ tasks[1][i].input.url = "presigned"
                  /\ tasks[1][i].input.bucket = minio_page_images_bucket
                  /\ tasks[1][i].input.key = page_object_name(task_id_of(1), i - 1)
                  /\ \E o \in store : o.bucket = minio_page_images_bucket
                                        /\ o.key = tasks[1][i].input.key
        /\ calls[1].put_image = 0 =>
              \A i \in 1..Len(tasks[1]) : tasks[1][i].input.url = "bitmap"

C19_Witness ==
    /\ Dispatched(1)
    /\ req[1].options.provider = "paddle"
    /\ loc[1].pdf_url = NoUrl
    /\ calls[1].put_image = 2
    /\ Len(tasks[1]) = 2
    /\ tasks[1][2].input.url = "presigned"

\* every artifact request r has staged is in the store with the content it
\* was written with
ArtifactsIntact(r) ==
    /\ loc[r].orig # NoRef =>
          [bucket |-> loc[r].orig.bucket, key |-> loc[r].orig.key,
           content |-> req[r].payload.data] \in store
    /\ loc[r].pdf # NoRef =>
          \E o \in store : /\ o.bucket = loc[r].pdf.bucket
                            /\ o.key = loc[r].pdf.key
                            /\ o.content.fmt = "pdf"
                            /\ loc[r].payload.suffix = "pdf" => o.content = loc[r].payload.data
    /\ \A i \in 1..Len(loc[r].image_keys) :
          [bucket |-> minio_page_images_bucket, key |-> loc[r].image_keys[i],
           content |-> PngOfPage(i - 1)] \in store
    /\ Cardinality(store) >=
          (IF loc[r].orig # NoRef THEN 1 ELSE 0) + (IF loc[r].pdf # NoRef THEN 1 ELSE 0)
              + Len(loc[r].image_keys)

\* C20: after a request has failed, every object it had staged (original,
\* converted PDF, page images) is still in the store with unchanged content.
C20_FailureKeepsArtifacts == Raised(1) => ArtifactsIntact(1)

C20_Witness ==
    /\ Raised(1)
    /\ loc[1].orig # NoRef
    /\ loc[1].pdf # NoRef
    /\ Len(loc[1].image_keys) = 2
    /\ \E i \in 1..Len(tasks[1]) : tasks[1][i].st = "failed"
    /\ Cardinality(store) = 4

\* C21: processor selection follows a strict priority: a declared content
\* type that begins with image/ selects the still-image processor whatever
\* the suffix is (pdf, doc, docx and unknown suffixes included); otherwise
\* suffix pdf selects the PDF processor, a still-image suffix selects the
\* still-image processor, and doc, docx and every other suffix fail with
\* UnsupportedFormat.
C21_ProcessorPriority ==
    (arg.fn = "get_processor" /\ ret # << >>) =>
        LET p == arg.x
            got == ret[1]
            image_type == p.content_type # << >> /\ p.content_type[1] = "image"
            still_image == got = [processor |-> "image", err |-> NoErr]
        IN  IF image_type THEN still_image
            ELSE IF p.suffix = "pdf" THEN got = [processor |-> "pdf", err |-> NoErr]
            ELSE IF p.suffix \in {"png", "jpg", "jpeg", "webp", "bmp"} THEN still_image
            ELSE got.processor = None /\ got.err.cls = "UnsupportedFileTypeError"

C21_Witness ==
    /\ arg.fn = "get_processor"
    /\ arg.x.suffix = "docx"
    /\ arg.x.content_type = <<"image", "png">>
    /\ ret = <<[processor |-> "image", err |-> NoErr]>>

\* the failures the rasterizers raise for bytes they cannot decode and for a
\* PDF over the page limit
DecodeErrorClasses == {"FileDataError", "UnidentifiedImageError"}
TaxonomyClassified(err) ==
    \/ err.cls \in {"FileNotProvidedError", "UnsupportedFileTypeError",
                    "OCRProcessException", "StorageUnavailableError"}
    \/ err.cls \in DecodeErrorClasses
    \/ err = Err("ValueError", "PDF has more pages than allowed")

\* C22: at the HTTP boundary every failure of the taxonomy (UnsupportedFormat,
\* DecodeError for corrupt bytes, PageLimitExceeded, ConversionUnavailable,
\* ConversionFailed, StorageUnavailable, UnknownProvider, ProviderError,
\* EmptyRecognitionResult, UnexpectedResponseShape) is reported to the caller
\* with its descriptive message; only other internal errors are reported as
\* a generic internal fault.
C22_TaxonomyReportedWithDetail ==
    (Raised(1) /\ TaxonomyClassified(outcome[1].err)) =>
        /\ http_response(outcome[1].err).error = outcome[1].err.msg
        /\ http_response(outcome[1].err).error # "Internal Server Error"

\* C23: the PaddleOCR client decodes the answer by trying the shapes in a
\* fixed order: an object with the key text yields that value; otherwise an
\* object with the key result yields its string form; otherwise a non-empty
\* list yields the string form of its first element; every other answer (an
\* empty list, an object with neither key, a scalar) fails with
\* UnexpectedResponseShape and never yields a text.
C23_PaddleShapesInOrder ==
    (arg.fn = "PaddleDecode" /\ ret # << >> /\ arg.x.status = "ok") =>
        LET data == arg.x
            got == ret[1]
            object == data.json = "dict"
            unexpected == Err("OCRProcessException", "Unexpected PaddleOCR response format")
        IN  IF object /\ "text" \in data.keys
              THEN got = [text |-> data.text, err |-> NoErr]
            ELSE IF object /\ "result" \in data.keys
              THEN got = [text |-> data.result, err |-> NoErr]
            ELSE IF data.json = "list" /\ Len(data.items) > 0
              THEN got = [text |-> Head(data.items), err |-> NoErr]
            ELSE got = [text |-> EmptyText, err |-> unexpected]

C23_Witness ==
    /\ arg.fn = "PaddleDecode"
    /\ arg.x.json = "dict"
    /\ arg.x.keys = {"text", "result"}
    /\ arg.x.text = <<"U+00E9", NL>>
    /\ arg.x.result = <<"a">>
    /\ ret = <<[text |-> <<"U+00E9", NL>>, err |-> NoErr]>>

\* C24: a page task of the multimodal client whose answer has no content or
\* an empty content fails with EmptyRecognitionResult and returns no text: a
\* task that has returned has a non-empty text, and no page of a
\* DocumentResult produced by the multimodal backend has an empty text.
C24_NoEmptyTextFromMultimodal ==
    req[1].options.provider = "deepseek" =>
        /\ \A i \in 1..Len(tasks[1]) :
              LET t == tasks[1][i] IN
              /\ t.st = "done" => t.out # << >> /\ t.err = NoErr
              /\ t.st = "failed" =>
                    /\ t.out = << >>
                    /\ t.err \in {Err("OCRProcessException", "Empty OCR response"),
                                  Err("OCRProcessException", "vLLM OCR request failed")}
        /\ Returned(1) =>
              \A i \in 1..Len(outcome[1].result.pages) :
                  Len(outcome[1].result.pages[i].text) > 0

C24_Witness ==
    /\ req[1].options.provider = "deepseek"
    /\ Raised(1)
    /\ outcome[1].err = Err("OCRProcessException", "Empty OCR response")
    /\ Len(tasks[1]) = 2
    /\ tasks[1][1].st = "done"
    /\ tasks[1][2].st = "failed"
    /\ tasks[1][2].err = Err("OCRProcessException", "Empty OCR response")

\* _store_and_presign_images has returned to _process_payload
StagingReturned(r) ==
    \/ pc[r] \in {"dispatch", "gather", "store_result", "done"}
    \/ pc[r] = "failed" /\ loc[r].prompt # None

\* C25: page-image staging writes the image of page i (from 0) under the key
\* {task_id}/page-{i+1}.png of the page-images bucket; the key list and the
\* URL list it returns have exactly one entry per rasterized page, in page
\* order, and the URL at position i is the presigned URL of the key at
\* position i.
C25_StagedKeysAndUrls ==
    LET l == loc[1]
        keys == l.image_keys
        urls == l.image_urls
    IN  /\ Len(keys) = Len(urls)
        /\ \A n \in 1..Len(keys) :
              /\ keys[n] = <<"1", "/page-", ToString(n), ".png">>
              /\ urls[n] = [url |-> "presigned", bucket |-> "page-images", key |-> keys[n]]
              /\ \E o \in store :
                    /\ o.bucket = "page-images"
                    /\ o.key = keys[n]
                    /\ o.content = PngOfPage(n - 1)
        /\ l.images >= 0 => Len(keys) <= l.images
        /\ (StagingReturned(1) /\ l.staged) => Len(keys) = l.images
        /\ Returned(1) => outcome[1].result.image_objects = keys

C25_Witness ==
    /\ Returned(1)
    /\ loc[1].images = 2
    /\ loc[1].image_keys = << <<"1", "/page-", "1", ".png">>, <<"1", "/page-", "2", ".png">> >>
    /\ Len(loc[1].image_urls) = 2
    /\ loc[1].image_urls[2].key = <<"1", "/page-", "2", ".png">>

\* request r has handed a PDF of zero pages to the rasterizer, and the
\* rasterizer has ended
ZeroPages(r) ==
    /\ loc[r].processor = "pdf"
    /\ loc[r].payload.data = PdfData(0)
    /\ pc[r] # "rasterize"

\* the failures of a collaborator that have nothing to do with the number of
\* pages: no PaddleOCR client, a failed upload of the result, no storage
\* client for the result, a failed presign
CollaboratorFailures ==
    {Err("OCRProcessException", "PaddleOCR client is not configured"),
     Err("S3Error", "put_object failed"),
     Err("StorageUnavailableError", "Storage client is not configured"),
     Err("StorageUnavailableError", "presign failed")}

\* what is left of C26 when no recognition call is made for zero pages
ZeroPagesNotAnError(r) ==
    /\ pc[r] # "stage_images"
    /\ Raised(r) => outcome[r].err \in CollaboratorFailures
    /\ Returned(r) =>
          /\ outcome[r].result.total_pages = 0
          /\ outcome[r].result.pages = << >>
          /\ outcome[r].result.combined_text = << >>

\* C26 as stated: a document that rasterizes to zero pages is not an error:
\* for every provider and output mode no page fails it, and it completes with
\* total_pages = 0, no pages and an empty combined_text.
C26_ZeroPagesAlwaysEmptyResult ==
    (ZeroPages(1) /\ req[1].options.provider \in {"deepseek", "paddle"}) =>
        /\ ZeroPagesNotAnError(1)
        /\ tasks[1] = << >>
        /\ calls[1].ocr = 0

\* C26 as amended: a document that rasterizes to zero pages is not an error
\* and completes with total_pages = 0, no pages and an empty combined_text,
\* for both providers and output modes except on the whole-document path
\* (PaddleOCR, markdown, a converted office document), where one recognition
\* call is made on the PDF itself.
C26_ZeroPagesEmptyResult ==
    (ZeroPages(1) /\ req[1].options.provider \in {"deepseek", "paddle"}
       /\ ~WholeDocumentPath(1)) =>
        /\ ZeroPagesNotAnError(1)
        /\ tasks[1] = << >>
        /\ calls[1].ocr = 0

C26_Witness ==
    /\ ZeroPages(1)
    /\ req[1].options.provider = "paddle"
    /\ req[1].options.output_format = "plain_text"
    /\ req[1].payload.suffix = "docx"
    /\ Returned(1)
    /\ outcome[1].result.total_pages = 0
    /\ calls[1].ocr = 0

\* request r is being processed
InProgress(r) == pc[r] \notin {"idle", "done", "failed"}

\* a step leaves everything request q owns as it was
Untouched(q) ==
    /\ pc'[q] = pc[q]
    /\ req'[q] = req[q]
    /\ loc'[q] = loc[q]
    /\ tasks'[q] = tasks[q]
    /\ calls'[q] = calls[q]
    /\ outcome'[q] = outcome[q]

MarkupTokens ==
    { <<"<", "|">> \o slash \o word \o <<"|", ">">> :
        slash \in {<< >>, <<"/">>}, word \in {<<"r", "e", "f">>, <<"d", "e", "t">>} }
Occurs(tok, t) ==
    \E i \in 1..Len(t) :
        /\ i + Len(tok) - 1 <= Len(t)
        /\ SubSeq(t, i, i + Len(tok) - 1) = tok
MarkupFree(t) == \A tok \in MarkupTokens : ~Occurs(tok, t)

\* C28: every text a provider returns passes through the stripping of layout
\* markup before aggregation: in a returned DocumentResult each pages[i].text
\* equals strip_layout_tags of the provider's raw text for that page, and
\* neither the page texts nor combined_text contain <|ref|>, <|/ref|>,
\* <|det|> or <|/det|>.
C28_TextsStripped ==
    Returned(1) =>
        LET res == outcome[1].result IN
        /\ \A i \in 1..Len(res.pages) :
              /\ res.pages[i].text = strip_layout_tags(tasks[1][i].out)
              /\ MarkupFree(res.pages[i].text)
        /\ MarkupFree(res.combined_text)

\* the object of the store a reference names, as a set (empty when missing)
ObjectsAt(ref) == { o \in store : o.bucket = ref.bucket /\ o.key = ref.key }

\* C29: for a doc/docx payload the converter is invoked only after the
\* original has been staged, and is given exactly the bucket and key of the
\* staged original; the bytes rasterized are those fetched from the reference
\* the converter returned; a converter answer that is not a success fails the
\* request with ConversionFailed before that fetch.  For every other suffix
\* the payload passes unchanged and the converter is never called.
C29_ConversionUsesStagedOriginal ==
    pc[1] # "idle" =>
        LET l == loc[1]
            c == calls[1]
            submitted == req[1].payload
        IN
        IF submitted.suffix \notin {"doc", "docx"}
          THEN /\ c.convert = 0
               /\ c.fetch = 0
               /\ l.payload = submitted
               /\ l.convert_src = NoRef
               /\ l.pdf = NoRef
          ELSE /\ c.convert <= 1
               /\ c.convert = 0 => l.convert_src = NoRef /\ l.pdf = NoRef
               /\ c.convert = 1 =>
                     /\ l.orig = Ref("raw-docs", <<"1", "-", "f", ".", submitted.suffix>>)
                     /\ l.convert_src = l.orig
                     /\ \E o \in ObjectsAt(l.orig) : o.content = submitted.data
               /\ c.fetch <= c.convert
               /\ (Raised(1) /\ outcome[1].err = Err("OCRProcessException", "Convert failed")) =>
                     /\ c.fetch = 0
                     /\ c.rasterize = 0
                     /\ l.pdf = NoRef
               /\ c.rasterize > 0 =>
                     /\ c.fetch = 1
                     /\ l.pdf # NoRef
                     /\ \E o \in ObjectsAt(l.pdf) : l.payload.data = o.content

C29_Witness ==
    /\ req[1].payload.suffix = "docx"
    /\ Returned(1)
    /\ calls[1].convert = 1
    /\ loc[1].convert_src = Ref("raw-docs", <<"1", "-", "f", ".", "docx">>)
    /\ loc[1].payload.data = PdfData(2)
    /\ loc[1].images = 2

\* the page tasks of the multimodal client that hold a permit
Holders ==
    { <<r, i>> \in Reqs \X (1..(max_pages + 1)) :
        /\ i <= Len(tasks[r])
        /\ tasks[r][i].client = "deepseek"
        /\ tasks[r][i].st = "inflight" }

\* the page tasks of the multimodal client that have ended, by how they ended
Ended(how) ==
    { <<r, i>> \in Reqs \X (1..(max_pages + 1)) :
        /\ i <= Len(tasks[r])
        /\ tasks[r][i].client = "deepseek"
        /\ tasks[r][i].st \in {"done", "failed"}
        /\ tasks[r][i].err = how }

\* C30: the semaphore of the multimodal client never leaks: every page task
\* that acquired a permit gives it back on every exit path (success, provider
\* error, empty answer), so the permits left plus the tasks holding one are
\* always max_workers, the permits never exceed max_workers, and whenever no
\* page task is running every permit is available.
C30_SemaphoreNeverLeaks ==
    /\ sem + Cardinality(Holders) = max_workers
    /\ sem >= 0
    /\ sem <= max_workers
    /\ Holders = {} => sem = max_workers

C30_Witness ==
    /\ sem = max_workers
    /\ Holders = {}
    /\ Ended(NoErr) # {}
    /\ Ended(Err("OCRProcessException", "vLLM OCR request failed")) # {}
    /\ Ended(Err("OCRProcessException", "Empty OCR response")) # {}

C32_NeverBitmaps ==
    /\ \A i \in 1..Len(tasks[1]) :
          /\ tasks[1][i].input.url = "presigned"
          /\ \E o \in store : o.bucket = tasks[1][i].input.bucket
                                /\ o.key = tasks[1][i].input.key
    /\ (pc[1] \in {"dispatch", "gather", "store_result", "done"} /\ loc[1].images >= 1) =>
          /\ cfg.storage /\ cfg.minio_enabled
          /\ Len(loc[1].image_urls) = loc[1].images
    /\ (pc[1] \in {"gather", "store_result", "done"} /\ loc[1].image_urls = << >>) =>
          loc[1].images = 0

C32_Witness ==
    /\ pc[1] = "gather"
    /\ req[1].options.provider = "deepseek"
    /\ loc[1].images = 2
    /\ Len(tasks[1]) = 2
    /\ tasks[1][1].input.url = "presigned"
    /\ tasks[1][2].input.url = "presigned"

\* the page images in the store
PageObjects == { o \in store : o.bucket = "page-images" }

\* C33: page images are staged one after another in page order (page i+1 is
\* uploaded only after page i has been uploaded and presigned), and no
\* provider call starts before every page image has been uploaded and
\* presigned; when staging page k fails, the pages before k stay staged, the
\* pages after k are never uploaded and no provider call is made.
C33_StagingSequential ==
    LET l == loc[1]
        presigned == Len(l.image_urls)
        uploaded == Cardinality(PageObjects)
    IN  /\ uploaded \in {presigned, presigned + 1}
        /\ \A o \in PageObjects :
              \E n \in 1..uploaded :
                  /\ o.key = <<"1", "/page-", ToString(n), ".png">>
                  /\ o.content = PngOfPage(n - 1)
        /\ calls[1].put_image \in {presigned, presigned + 1}
        /\ uploaded <= calls[1].put_image
        /\ (tasks[1] # << >> \/ calls[1].ocr > 0) => presigned = l.images /\ uploaded = l.images
        /\ (Raised(1) /\ l.images >= 0 /\ presigned < l.images) =>
              /\ outcome[1].err \in {Err("S3Error", "put_object failed"),
                                     Err("StorageUnavailableError", "presign failed")}
              /\ tasks[1] = << >>
              /\ calls[1].ocr = 0
              /\ l.prompt = None

C33_Witness ==
    /\ Raised(1)
    /\ loc[1].images = 2
    /\ Len(loc[1].image_urls) = 1
    /\ outcome[1].err = Err("S3Error", "put_object failed")
    /\ Cardinality(PageObjects) = 1
    /\ calls[1].put_image = 2
    /\ calls[1].ocr = 0

\* C34: in every returned DocumentResult the artifact references agree with
\* what was staged: source_bucket and source_object_name are set and name the
\* staged original; converted_pdf_bucket and converted_pdf_object are set
\* exactly when the submitted suffix was doc or docx (and name the converted
\* PDF); image_bucket is set exactly when at least one page image was
\* staged, and image_objects then has one key per rasterized page.
C34_ArtifactReferences ==
    Returned(1) =>
        LET res == outcome[1].result
            submitted == req[1].payload
            office == submitted.suffix \in {"doc", "docx"}
        IN
        /\ res.source_bucket # None
        /\ res.source_object_name # << >>
        /\ \E o \in store :
              /\ o.bucket = res.source_bucket
              /\ o.key = res.source_object_name
              /\ o.content = submitted.data
        /\ (res.converted_pdf_bucket # None) <=> office
        /\ (res.converted_pdf_object # << >>) <=> office
        /\ office =>
              \E o \in store :
                  /\ o.bucket = res.converted_pdf_bucket
                  /\ o.key = res.converted_pdf_object
                  /\ o.content.fmt = "pdf"
        /\ (res.image_bucket # None) <=> (PageObjects # {})
        /\ res.image_bucket # None =>
              /\ res.image_bucket = "page-images"
              /\ Len(res.image_objects) = loc[1].images
              /\ \A n \in 1..Len(res.image_objects) :
                    \E o \in PageObjects : o.key = res.image_objects[n]
        /\ res.image_bucket = None => res.image_objects = << >>

C34_Witness ==
    /\ Returned(1)
    /\ req[1].payload.suffix = "doc"
    /\ outcome[1].result.source_object_name = <<"1", "-", "f", ".", "doc">>
    /\ outcome[1].result.converted_pdf_bucket = "converted-pdf"
    /\ outcome[1].result.image_bucket = "page-images"
    /\ Len(outcome[1].result.image_objects) = 2

\* the references request r has written or is writing to
RefsOf(r) ==
    ({loc[r].orig, loc[r].pdf, loc[r].stored}
        \cup { Ref("page-images", loc[r].image_keys[n]) : n \in 1..Len(loc[r].image_keys) })
    \ {NoRef}

\* the key carries the task id of request r
Namespaced(key, r) ==
    \/ Head(key) = ToString(r)
    \/ Len(key) >= 2 /\ key[1] = "ocr-results/" /\ key[2] = ToString(r)

\* the reference is the result target the caller of request r named
Override(ref, r) ==
    /\ req[r].options.store_object_name # << >>
    /\ ref = loc[r].stored

KeysNamespaced ==
    /\ \A r \in LiveReqs : \A ref \in RefsOf(r) : Override(ref, r) \/ Namespaced(ref.key, r)
    /\ \A r \in LiveReqs : \A q \in LiveReqs \ {r} :
          \A ref \in RefsOf(r) \cap RefsOf(q) : Override(ref, r) /\ Override(ref, q)
    /\ \A r \in LiveReqs :
          loc[r].orig # NoRef =>
              \E o \in ObjectsAt(loc[r].orig) : o.content = req[r].payload.data
    /\ \A ref \in UNION { RefsOf(r) : r \in LiveReqs } : Cardinality(ObjectsAt(ref)) <= 1

\* the upload of a result leaves its text under the target, whatever was there
LaterUploadWins ==
    \A r \in LiveReqs :
        (pc[r] = "store_result" /\ pc'[r] = "done") =>
            \E o \in store' :
                /\ o.bucket = loc[r].stored.bucket
                /\ o.key = loc[r].stored.key
                /\ o.content = Bytes("text", 0, utf8_encode(loc[r].combined))

\* C35: one task id per request namespaces every object key the request
\* writes (original, converted PDF, page images, default result key), so two
\* concurrent requests never write the same key, even for files of the same
\* name; two requests write the same key only through a store_object_name the
\* callers supplied, and then the later result upload overwrites the earlier.
C35_TaskIdNamespacesKeys == [](KeysNamespaced) /\ [][LaterUploadWins]_vars

C35_Witness ==
    /\ pc[1] = "done" /\ pc[2] = "done"
    /\ req[1].payload.suffix = "pdf" /\ req[2].payload.suffix = "pdf"
    /\ req[1].payload.data # req[2].payload.data
    /\ loc[1].orig # loc[2].orig
    /\ loc[1].stored = loc[2].stored
    /\ loc[1].combined = <<"a">>
    /\ loc[2].combined = << >>
    /\ Cardinality(ObjectsAt(loc[1].stored)) = 1

\* C36: every page task handed to the multimodal backend carries
\* skip_special_tokens = True, whatever the configuration and the output mode;
\* the fallback that reads the setting is never taken
C36_SkipSpecialTokensForced ==
    \A r \in Reqs : \A i \in 1..Len(tasks[r]) :
        tasks[r][i].client = "deepseek" => tasks[r][i].skip = "True"

C36_Witness ==
    \E r \in Reqs :
        /\ req[r].options.output_format = "markdown"
        /\ Len(tasks[r]) > 0
        /\ tasks[r][1].client = "deepseek"
        /\ tasks[r][1].skip = "True"
        /\ tasks[r][1].st = "done"

(***************************************************************************)
(* The recognition service (services/paddle-ocr): POST /predict/ocr_system *)
(* is a plain function, which the server runs in a pool of worker threads. *)
(***************************************************************************)
\* str.lower() on the pieces of a URL path
url_lower(piece) == IF piece = ".PDF" THEN ".pdf" ELSE piece

\* urlparse(url).path.lower().endswith(".pdf"); a URL is its pieces, the last
\* one the end of its path
path_endswith_pdf(url) == url_lower(url[Len(url)]) = ".pdf"

\* OCRRequest: a base64 image, a URL, or neither
PredictUrls ==
    { << >>, <<"http://minio/pages/1", ".png">>, <<"http://minio/f", ".pdf">>,
      <<"http://minio/f", ".PDF">> }
PredictRequests ==
    [image : {None, "base64 png", "base64 garbage"}, image_url : PredictUrls,
     output_format : OutputFormats]

\* what requests.get(image_url) answers: a status, a content type, a body that
\* PIL can open or not
HttpResponses ==
    [ok : BOOLEAN, content_type : {"application/pdf", "image/png"},
     opens : BOOLEAN]

\* content_type.startswith("application/pdf")
content_type_is_pdf(resp) == resp.content_type = "application/pdf"

\* Image.open(BytesIO(base64.b64decode(req.image))) succeeds
image_opens(image) == image = "base64 png"

ThreadRaise(t, status, detail) ==
    thread' = [thread EXCEPT ![t].pc = "done", ![t].status = status,
                             ![t].detail = detail]

\* predict, lines 82-84: a worker thread takes a request
Predict(t, r) ==
    /\ thread[t].pc = "idle"
    /\ IF r.image = None /\ r.image_url = << >>
         THEN thread' = [thread EXCEPT ![t] =
                  [IdleThread EXCEPT !.pc = "done", !.req = r, !.status = 400,
                                     !.detail = "image or image_url is required"]]
       ELSE thread' = [thread EXCEPT ![t] =
                  [IdleThread EXCEPT !.pc = "prepare", !.req = r]]
    /\ UNCHANGED <<cfg, pc, req, loc, tasks, sem, store, calls, outcome, text, cleaned, arg, ret, OCR_LOCK>>

\* predict, lines 86-119: the input is fetched or decoded; a PDF goes to
\* do_ocr_recognition from here (line 107), an image goes on to the lock
Prepare(t, resp) ==
    /\ thread[t].pc = "prepare"
    /\ LET r == thread[t].req IN
       IF r.image_url # << >>
         THEN IF ~resp.ok
                THEN ThreadRaise(t, 400, "invalid image")
              ELSE IF path_endswith_pdf(r.image_url) \/ content_type_is_pdf(resp)
                THEN IF r.output_format # "markdown"
                       THEN ThreadRaise(t, 400, "invalid image")
                     ELSE thread' = [thread EXCEPT ![t].pc = "pdf_recognition",
                                                   ![t].pdf_path = "tmp.pdf"]
              ELSE IF resp.opens
                THEN thread' = [thread EXCEPT ![t].pc = "acquire"]
              ELSE ThreadRaise(t, 400, "invalid image")
       ELSE IF image_opens(r.image)
         THEN thread' = [thread EXCEPT ![t].pc = "acquire"]
       ELSE ThreadRaise(t, 400, "invalid image")
    /\ UNCHANGED <<cfg, pc, req, loc, tasks, sem, store, calls, outcome, text, cleaned, arg, ret, OCR_LOCK>>

\* predict, lines 107-113 and 118-119: do_ocr_recognition on the PDF returns or
\* raises inside the try block
PdfRecognized(t, ok) ==
    /\ thread[t].pc = "pdf_recognition"
    /\ IF ok
         THEN thread' = [thread EXCEPT ![t].pc = "done", ![t].status = 200]
       ELSE ThreadRaise(t, 400, "invalid image")
    /\ UNCHANGED <<cfg, pc, req, loc, tasks, sem, store, calls, outcome, text, cleaned, arg, ret, OCR_LOCK>>

\* predict, line 121: with _OCR_LOCK, entered when the lock is free;
\* do_ocr_recognition starts (line 122)
Acquire(t) ==
    /\ thread[t].pc = "acquire"
    /\ ~OCR_LOCK
    /\ OCR_LOCK' = TRUE
    /\ thread' = [thread EXCEPT ![t].pc = "recognition"]
    /\ UNCHANGED <<cfg, pc, req, loc, tasks, sem, store, calls, outcome, text, cleaned, arg, ret>>

\* predict, lines 122-128: do_ocr_recognition returns or raises, the with
\* block releases the lock either way
Recognized(t, ok) ==
    /\ thread[t].pc = "recognition"
    /\ OCR_LOCK' = FALSE
    /\ IF ok
         THEN thread' = [thread EXCEPT ![t].pc = "done", ![t].status = 200]
       ELSE ThreadRaise(t, 500, "Internal Server Error")
    /\ UNCHANGED <<cfg, pc, req, loc, tasks, sem, store, calls, outcome, text, cleaned, arg, ret>>

\* the response is sent and the worker thread goes back to the pool
Respond(t) ==
    /\ thread[t].pc = "done"
    /\ thread' = [thread EXCEPT ![t] = IdleThread]
    /\ UNCHANGED <<cfg, pc, req, loc, tasks, sem, store, calls, outcome, text, cleaned, arg, ret, OCR_LOCK>>

NextPredict ==
    \/ \E t \in Threads, r \in PredictRequests : Predict(t, r)
    \/ \E t \in Threads, resp \in HttpResponses : Prepare(t, resp)
    \/ \E t \in Threads, ok \in BOOLEAN : PdfRecognized(t, ok)
    \/ \E t \in Threads : Acquire(t)
    \/ \E t \in Threads, ok \in BOOLEAN : Recognized(t, ok)
    \/ \E t \in Threads : Respond(t)

SpecPredict == InitConc /\ [][NextPredict]_vars

\* the threads that are inside do_ocr_recognition
Recognizing ==
    { t \in Threads : thread[t].pc \in {"pdf_recognition", "recognition"} }

\* C37: at most one do_ocr_recognition runs at any time in the recognition
\* service, for image inputs and for whole-document PDF inputs alike
C37_RecognitionExclusive == Cardinality(Recognizing) <= 1

====
